---- MODULE Spec2Model ----
(***************************************************************************)
(* The companion conversion server of lov-app1: POST /api/v1/files/        *)
(* conversion (server/routes/files.js) behind the error middleware of      *)
(* server/index.js.  Text is a sequence of one-character strings, so that  *)
(* String.endsWith, String.replace, JSON.stringify and JSON.parse are      *)
(* computed character by character.                                        *)
(***************************************************************************)
EXTENDS Integers, Sequences, FiniteSets, TLC

(***************************************************************************)
(* Bounds of the model.                                                    *)
(***************************************************************************)
\* longest sheet (number of data rows) that is converted
MaxRows == 2
\* the millisecond clock read by Date.now() and new Date() runs 0..MaxClock
MaxClock == 1
\* longest sheet that is converted twice
MaxTwiceRows == 1
\* with two requests in flight the millisecond clock runs 0..MaxPairClock
MaxPairClock == 1
\* most turns of a conversation that is written out as a list
MaxTurns == 2
MaxFetches == 3
MaxDatasets == 25
MaxLoads == 3
MaxAnnotations == 201

(***************************************************************************)
(* JavaScript values of sheet cells and item fields: undefined, a number   *)
(* or a string.                                                            *)
(***************************************************************************)
Undef == [t |-> "undef", n |-> 0, s |-> <<>>]
Num(k) == [t |-> "num", n |-> k, s |-> <<>>]
Str(cs) == [t |-> "str", n |-> 0, s |-> cs]

\* ToBoolean: undefined, 0 and '' are falsy
Truthy(v) == \/ v.t = "num" /\ v.n # 0
             \/ v.t = "str" /\ v.s # <<>>

\* a || b
Or(a, b) == IF Truthy(a) THEN a ELSE b

(***************************************************************************)
(* String operations of the handler.                                       *)
(***************************************************************************)
XlsxExt == <<".", "x", "l", "s", "x">>
JsonlExt == <<".", "j", "s", "o", "n", "l">>

\* s.endsWith(suf)
EndsWith(s, suf) ==
    /\ Len(s) >= Len(suf)
    /\ SubSeq(s, Len(s) - Len(suf) + 1, Len(s)) = suf

\* position of the first occurrence of pat in s, 0 when there is none
IndexOf(s, pat) ==
    LET hits == {i \in 1..(Len(s) - Len(pat) + 1) : SubSeq(s, i, i + Len(pat) - 1) = pat}
    IN  IF hits = {} THEN 0 ELSE CHOOSE i \in hits : \A j \in hits : i <= j

\* s.replace(pat, rep) with a string pattern: the first occurrence only
Replace(s, pat, rep) ==
    LET i == IndexOf(s, pat)
    IN  IF i = 0 THEN s
        ELSE SubSeq(s, 1, i - 1) \o rep \o SubSeq(s, i + Len(pat), Len(s))

(***************************************************************************)
(* JSON.stringify of the item object written per row.                      *)
(***************************************************************************)
DigitChars == <<"0", "1", "2", "3", "4", "5", "6", "7", "8", "9">>

RECURSIVE Digits(_)
\* the decimal digits of a natural number
Digits(k) == IF k < 10 THEN <<DigitChars[k + 1]>>
             ELSE Digits(k \div 10) \o <<DigitChars[(k % 10) + 1]>>

\* the escape JSON.stringify writes for one character of a string
QuoteChar(c) ==
    IF c = "\"" THEN <<"\\", "\"">>
    ELSE IF c = "\\" THEN <<"\\", "\\">>
    ELSE IF c = "\n" THEN <<"\\", "n">>
    ELSE <<c>>

RECURSIVE QuoteChars(_)
QuoteChars(cs) == IF cs = <<>> THEN <<>> ELSE QuoteChar(Head(cs)) \o QuoteChars(Tail(cs))

\* JSON.stringify of a string
JSONString(cs) == <<"\"">> \o QuoteChars(cs) \o <<"\"">>

\* JSON.stringify of a number or a string
JSONValue(v) == IF v.t = "num" THEN Digits(v.n) ELSE JSONString(v.s)

KeyItem == <<"i", "t", "e", "m">>
KeyConversationId == <<"c", "o", "n", "v", "e", "r", "s", "a", "t", "i", "o", "n", "I", "d">>
KeyConversation == <<"c", "o", "n", "v", "e", "r", "s", "a", "t", "i", "o", "n">>
KeyAgent == <<"A", "g", "e", "n", "t">>
KeyTimestamp == <<"t", "i", "m", "e", "s", "t", "a", "m", "p">>
KeySourceIntent == <<"s", "o", "u", "r", "c", "e", "_", "i", "n", "t", "e", "n", "t">>

\* the properties of the inner object in insertion order
ItemMembers(it) ==
    << <<KeyConversationId, it.conversationId>>,
       <<KeyConversation, it.conversation>>,
       <<KeyAgent, it.Agent>>,
       <<KeyTimestamp, it.timestamp>>,
       <<KeySourceIntent, it.source_intent>> >>

RECURSIVE JSONMembers(_, _)
\* "key":value pairs joined by commas; a property whose value is undefined
\* is left out
JSONMembers(ms, first) ==
    IF ms = <<>> THEN <<>>
    ELSE LET m == Head(ms)
         IN  IF m[2].t = "undef" THEN JSONMembers(Tail(ms), first)
             ELSE (IF first THEN <<>> ELSE <<",">>)
                  \o JSONString(m[1]) \o <<":">> \o JSONValue(m[2])
                  \o JSONMembers(Tail(ms), FALSE)

\* JSON.stringify({ item: { conversationId, conversation, Agent, timestamp,
\* source_intent } })
JSONStringify(it) ==
    <<"{">> \o JSONString(KeyItem) \o <<":">>
    \o <<"{">> \o JSONMembers(ItemMembers(it), TRUE) \o <<"}">> \o <<"}">>

(***************************************************************************)
(* JSON.parse, for reading the emitted lines back: objects, strings with   *)
(* the escapes above, and unsigned integers.  A result is                  *)
(* [ok, next, v]; v is [t, n, s, m] with m the members of an object.       *)
(***************************************************************************)
ParseFail == [ok |-> FALSE, next |-> 0, v |-> [t |-> "undef", n |-> 0, s |-> <<>>, m |-> <<>>]]
ParseOk(nxt, val) == [ok |-> TRUE, next |-> nxt, v |-> val]

IsDigit(c) == \E d \in 1..10 : DigitChars[d] = c
DigitValue(c) == (CHOOSE d \in 1..10 : DigitChars[d] = c) - 1

RECURSIVE ParseDigits(_, _, _)
ParseDigits(s, i, acc) ==
    IF i <= Len(s) /\ IsDigit(s[i]) THEN ParseDigits(s, i + 1, acc * 10 + DigitValue(s[i]))
    ELSE ParseOk(i, [t |-> "num", n |-> acc, s |-> <<>>, m |-> <<>>])

\* a number: digits, no leading zero unless the number is 0
ParseNumber(s, i) ==
    IF i > Len(s) \/ ~IsDigit(s[i]) THEN ParseFail
    ELSE IF s[i] = "0" /\ i < Len(s) /\ IsDigit(s[i + 1]) THEN ParseFail
    ELSE ParseDigits(s, i, 0)

RECURSIVE ParseChars(_, _, _)
\* the characters of a string literal after its opening quote
ParseChars(s, i, acc) ==
    IF i > Len(s) THEN ParseFail
    ELSE IF s[i] = "\"" THEN ParseOk(i + 1, [t |-> "str", n |-> 0, s |-> acc, m |-> <<>>])
    ELSE IF s[i] = "\n" THEN ParseFail
    ELSE IF s[i] = "\\" THEN
        IF i + 1 > Len(s) THEN ParseFail
        ELSE IF s[i + 1] = "\"" THEN ParseChars(s, i + 2, Append(acc, "\""))
        ELSE IF s[i + 1] = "\\" THEN ParseChars(s, i + 2, Append(acc, "\\"))
        ELSE IF s[i + 1] = "n" THEN ParseChars(s, i + 2, Append(acc, "\n"))
        ELSE ParseFail
    ELSE ParseChars(s, i + 1, Append(acc, s[i]))

ParseString(s, i) ==
    IF i <= Len(s) /\ s[i] = "\"" THEN ParseChars(s, i + 1, <<>>) ELSE ParseFail

RECURSIVE ParseValue(_, _)
RECURSIVE ParseMembers(_, _, _)

\* the members of an object from position i on, up to and with the closing brace
ParseMembers(s, i, acc) ==
    LET k == ParseString(s, i)
    IN  IF ~k.ok \/ k.next > Len(s) \/ s[k.next] # ":" THEN ParseFail
        ELSE LET x == ParseValue(s, k.next + 1)
             IN  IF ~x.ok \/ x.next > Len(s) THEN ParseFail
                 ELSE LET acc2 == Append(acc, <<k.v.s, x.v>>)
                      IN  IF s[x.next] = "," THEN ParseMembers(s, x.next + 1, acc2)
                          ELSE IF s[x.next] = "}"
                               THEN ParseOk(x.next + 1, [t |-> "obj", n |-> 0, s |-> <<>>, m |-> acc2])
                               ELSE ParseFail

ParseValue(s, i) ==
    IF i > Len(s) THEN ParseFail
    ELSE IF s[i] = "{" THEN
        IF i + 1 <= Len(s) /\ s[i + 1] = "}"
        THEN ParseOk(i + 2, [t |-> "obj", n |-> 0, s |-> <<>>, m |-> <<>>])
        ELSE ParseMembers(s, i + 1, <<>>)
    ELSE IF s[i] = "\"" THEN ParseString(s, i)
    ELSE ParseNumber(s, i)

\* JSON.parse(line): the whole line must be one value
JSONParse(line) ==
    LET r == ParseValue(line, 1)
    IN  IF r.ok /\ r.next = Len(line) + 1 THEN r ELSE ParseFail

\* obj[key]: the value of the last member named key, Undef when there is none
Member(jv, key) ==
    LET hits == {k \in 1..Len(jv.m) : jv.m[k][1] = key}
    IN  IF jv.t # "obj" \/ hits = {} THEN ParseFail.v
        ELSE jv.m[CHOOSE k \in hits : \A j \in hits : j <= k][2]

\* a parsed number or string as a cell value
AsVal(jv) == [t |-> jv.t, n |-> jv.n, s |-> jv.s]

\* the lines of a text: the pieces ended by a newline, and a last piece
\* without newline when there is one
Lines(cs) ==
    LET nls == {p \in 1..Len(cs) : cs[p] = "\n"}
        n == Cardinality(nls)
        end(k) == CHOOSE p \in nls : Cardinality({q \in nls : q < p}) = k - 1
        start(k) == IF k = 1 THEN 1 ELSE end(k - 1) + 1
        ended == [k \in 1..n |-> SubSeq(cs, start(k), end(k) - 1)]
        last == IF n = 0 THEN 0 ELSE end(n)
    IN  IF last < Len(cs) THEN Append(ended, SubSeq(cs, last + 1, Len(cs))) ELSE ended

(***************************************************************************)
(* Inputs: sheet rows as XLSX.utils.sheet_to_json returns them (an empty   *)
(* cell is an absent property), uploads, translation responses.            *)
(***************************************************************************)
Row(cid, cid2, conv, ts) ==
    [conversationId |-> cid, conversation_id |-> cid2, conversation |-> conv,
     Agent |-> Undef, agent |-> Undef, timestamp |-> ts,
     source_intent |-> Undef, sourceIntent |-> Undef]

TextHi == <<"h", "i">>
TextQuoted == <<"\"", "\n", "\\">>
CellTime == <<"T", "9">>

\* rows that differ in their id cells; the row with only conversation_id
\* also uses the alias headers agent and sourceIntent
IdRows == {Row(Undef, Undef, Str(TextHi), Str(CellTime)),
           Row(Num(0), Undef, Str(TextHi), Str(CellTime)),
           Row(Num(7), Undef, Str(TextHi), Str(CellTime)),
           Row(Str(<<"a">>), Undef, Str(TextHi), Str(CellTime)),
           [Row(Undef, Num(8), Str(TextHi), Str(CellTime)) EXCEPT
                !.agent = Str(<<"b">>), !.sourceIntent = Str(<<"s">>)],
           Row(Num(0), Num(8), Str(TextHi), Str(CellTime))}

\* rows that differ in their conversation cell
TextRows == {Row(Num(7), Undef, Undef, Str(CellTime)),
             Row(Num(7), Undef, Str(TextQuoted), Str(CellTime))}

\* rows without a timestamp cell and with a zero timestamp cell
TimeRows == {Row(Num(7), Undef, Str(TextHi), Undef),
             Row(Num(7), Undef, Str(TextHi), Num(0))}

Rows == IdRows \cup TextRows \cup TimeRows

RECURSIVE SeqsUpTo(_, _)
\* the sequences over S of length at most k
SeqsUpTo(S, k) ==
    IF k = 0 THEN {<<>>}
    ELSE LET shorter == SeqsUpTo(S, k - 1)
         IN  shorter \cup {Append(q, e) : q \in {p \in shorter : Len(p) = k - 1}, e \in S}

Sheets == SeqsUpTo(Rows, MaxRows)

\* req.files.file: absent, one uploaded file, or an array of files (several
\* parts named "file"), which has no name property
NoUpload == [kind |-> "none", name |-> <<>>]
ManyUploads == [kind |-> "multi", name |-> <<>>]
OneUpload(nm) == [kind |-> "single", name |-> nm]
FileNames == {<<"a", ".", "x", "l", "s", "x">>,
              <<"b", ".", "c", "s", "v">>,
              <<"c", ".", "x", "l", "s", "x", ".", "t">>,
              <<"d", ".", "X", "L", "S", "X">>}
Uploads == {NoUpload, ManyUploads} \cup {OneUpload(nm) : nm \in FileNames}

\* the deterministic translation stub: the English rendering of a text
StubTranslate(text) == <<"E", "N", ":">> \o text

\* What axios.post ends with: a rejection (network failure, non-2xx answer),
\* or a response whose body may lack data.data, may hold no translation, or
\* a translation without translatedText.
Rejected == [rejected |-> TRUE, hasData |-> FALSE, translations |-> <<>>]
Resolved(d, ts) == [rejected |-> FALSE, hasData |-> d, translations |-> ts]
Replies(text) ==
    {Rejected,
     Resolved(FALSE, <<>>),
     Resolved(TRUE, <<>>),
     Resolved(TRUE, <<Undef>>),
     Resolved(TRUE, <<Str(StubTranslate(text))>>)}
StubReply(text) == Resolved(TRUE, <<Str(StubTranslate(text))>>)

(***************************************************************************)
(* The pure steps of the handler.                                          *)
(***************************************************************************)
\* files.js 17-20, 32-37: what translateText returns to the caller, given
\* whether GOOGLE_API_KEY is set and what axios.post ended with.  A throw
\* inside the try (rejection, property of undefined) returns the text.
translateText(text, key, reply) ==
    IF ~key THEN text
    ELSE IF reply.rejected THEN text
    ELSE IF ~reply.hasData THEN text
    ELSE IF Len(reply.translations) = 0 THEN text
    ELSE reply.translations[1]

\* files.js 17, 33: the call did not produce a translation
TranslationFailed(key, reply) ==
    \/ ~key
    \/ reply.rejected
    \/ ~reply.hasData
    \/ Len(reply.translations) = 0
    \/ reply.translations[1].t = "undef"

\* a variant of the check of files.js 119: the name only has to contain
\* the extension
IsXlsxAnywhere(name) == IndexOf(name, XlsxExt) # 0

\* files.js 119
IsXlsx(name) == EndsWith(name, XlsxExt)

\* files.js 128, 129: the two temporary paths, as (timestamp, file name)
ExcelPath(ts, name) == [ts |-> ts, name |-> name]
JsonlPath(ts, name) == [ts |-> ts, name |-> Replace(name, XlsxExt, JsonlExt)]

\* a variant of files.js 156: the check is dropped and the fallback id of
\* files.js 162 (the row number) takes over
SkipRowNever(row) == FALSE

\* files.js 156: the row is skipped
SkipRow(row) == ~Truthy(row.conversationId) /\ ~Truthy(row.conversation_id)

\* the characters with a code of at most 127 that texts are written with
AsciiChars == {" ", "!", "\"", "'", "*", ",", ".", ":", "[", "\\", "]", "_", "{", "}", "\n",
               "0", "1", "2", "3", "4", "5", "6", "7", "8", "9",
               "A", "E", "I", "N", "T", "X", "L", "S",
               "a", "b", "c", "d", "e", "f", "h", "i", "j", "l", "n", "o", "r", "s", "t",
               "u", "x"}

\* files.js 41-44: some character of the text is not ASCII.  No call of it
\* is left in the handler.
mightNotBeEnglish(text) == \E k \in 1..Len(text) : text[k] \notin AsciiChars

\* a variant of files.js 169 that asks the heuristic of files.js 41-44
ShouldTranslateNonEnglish(conversation) ==
    Truthy(conversation) /\ mightNotBeEnglish(conversation.s)

\* files.js 169: if (conversation)
ShouldTranslate(conversation) == Truthy(conversation)

\* files.js 162; k is the row number i + 1
ResolveId(row, k) == Or(Or(row.conversationId, row.conversation_id), Num(k))
\* files.js 163
ResolveConversation(row) == Or(row.conversation, Str(<<>>))
\* files.js 164
ResolveAgent(row) == Or(Or(row.Agent, row.agent), Str(<<>>))
\* new Date().toISOString() at clock value t
ISOString(t) == <<"T">> \o Digits(t)
\* a variant of files.js 165: the timestamp cell is ignored
ResolveTimestampNow(row, t) == Str(ISOString(t))

\* files.js 165
ResolveTimestamp(row, t) == Or(row.timestamp, Str(ISOString(t)))
\* files.js 166
ResolveSourceIntent(row) == Or(Or(row.source_intent, row.sourceIntent), Str(<<>>))

\* files.js 162-166, 175-183: the item of a row before translation
MakeItem(row, k, t) ==
    [conversationId |-> ResolveId(row, k),
     conversation |-> ResolveConversation(row),
     Agent |-> ResolveAgent(row),
     timestamp |-> ResolveTimestamp(row, t),
     source_intent |-> ResolveSourceIntent(row)]

NoItem == MakeItem(Row(Undef, Undef, Undef, Undef), 0, 0)

\* files.js 186: the line written for an item
JsonlLine(it) == JSONStringify(it) \o <<"\n">>

\* the response objects
JsonResponse(status, msg) ==
    [status |-> status, type |-> "json", message |-> msg, body |-> <<>>, filename |-> <<>>]
\* files.js 207-209
Attachment(content, name) ==
    [status |-> 200, type |-> "attachment", message |-> "", body |-> content,
     filename |-> Replace(name, XlsxExt, JsonlExt)]
\* a variant of index.js 32: the status is not set
ErrorMiddlewareNoStatus(msg) ==
    JsonResponse(200, IF msg = "" THEN "An error occurred during the request" ELSE msg)

\* index.js 30-36
ErrorMiddleware(msg) ==
    JsonResponse(500, IF msg = "" THEN "An error occurred during the request" ELSE msg)
\* files.js 216
WrapError(msg) == "Error processing Excel file: " \o msg

MsgNoFile == "No file uploaded or file field missing in the request"
MsgNotXlsx == "Only .xlsx files are supported"
MsgNoName == "Cannot read properties of undefined (reading 'endsWith')"

(***************************************************************************)
(* State.                                                                  *)
(***************************************************************************)
VARIABLES
    sheet,      \* the rows of the first sheet of the uploaded workbook
    apiKey,     \* process.env.GOOGLE_API_KEY is set
    now,        \* the clock, in milliseconds
    run,        \* 1 for the first conversion of the sheet, 2 for the second
    prev,       \* the responses of the first conversion, and whether every
                \* answer of the translation service was the stub's
    files,      \* the paths that exist in the temp directory
    pc,         \* where the handler of the current request stands
    upload,     \* req.files.file
    timestamp,  \* Date.now() of files.js 127
    stream,     \* jsonlStream: "none", "opening", "open", "finished", "errored"
    jsonlBuf,   \* the characters written to jsonlStream
    i,          \* the row number of the loop (the code's i + 1)
    processedRows,
    item,       \* the item of the row whose translation is awaited
    error,      \* the message of the error caught by the inner catch
    res,        \* the responses sent for the current request
    hist,       \* history of the current request, for stating properties
    clock,      \* two requests in flight: the clock, in milliseconds
    reqs,       \* two requests in flight: the state of each handler
    tmp,        \* two requests in flight: the temp directory, path to content
    annotationConversation, \* review page: annotation.conversation
    origin,     \* review page: how the conversation string was written
    rendered,   \* review page: what parseConversation handed back
    page,       \* run monitor: "closed", "opened", "shown", "unmounted"
    route,      \* run monitor: useParams()
    stored,     \* run monitor: lastRunId and lastRunEvalId of localStorage
    view,       \* run monitor: the state of the component
    timers,     \* run monitor: the intervals that are set and not cleared
    pollInterval, \* run monitor: pollInterval.current
    pending,    \* run monitor: the status requests that are not yet answered
    started,    \* run monitor: the status requests started so far
    runStatus,  \* run monitor: the status of the run at the service
    details,    \* run monitor: the status of the latest answer
    closure,    \* run monitor: what the fetchRunDetails of the interval reads
    logged,     \* run monitor: the log lines appended by the latest step
    catalog,     \* dataset library: the ids of the files the backend holds, in its order
    datasets,    \* dataset library: the ids of the loaded datasets
    lastFileId,  \* dataset library: the cursor of the next page
    hasMore,     \* dataset library: more pages are assumed
    loading,     \* dataset library: the first page is being loaded
    loadingMore, \* dataset library: a further page is being loaded
    fetching,   \* dataset library: the page request in flight, and its cursor
    localStorage, \* session linking: lastRunEvalId, lastRunId, lastTestCriteriaId
    location,    \* session linking: the page the browser shows, and its :runId
    annotationsOf, \* session linking: the run whose annotations the review page lists
    awaiting,    \* session linking: the getRunDetails that getAnnotations awaits
    sent,       \* session linking: the requests sent by the latest step
    file,        \* upload page: the selected file
    convertedJsonlFile, \* upload page: the stored result of a conversion
    isConverting, \* upload page
    isUploading, \* upload page
    converting,  \* upload page: the files whose conversion request is in flight
    posted,     \* upload page: the file of the latest upload request
    backend,     \* dataset selector: the ids of the files the backend holds, in its order
    listed,      \* dataset selector: the ids of the datasets in the list
    picker,      \* dataset selector: the state of the component
    committed,   \* dataset selector: the state the handlers on screen were rendered with
    observers,   \* dataset selector: the states the live intersection observers were created with
    inflight,    \* dataset selector: the page requests in flight, with their cursors
    asked,      \* dataset selector: the cursors of the load-more requests made so far
    annotations,    \* export endpoint: the ids of the annotations the service holds, ascending
    allAnnotations, \* export endpoint: the annotations fetched so far
    after,          \* export endpoint: the cursor of the next page, 0 for none
    exportPc,       \* export endpoint: idle, fetching (in the loop of fetchAllAnnotations), answered
    lateFailure,    \* export endpoint: a page request failed after a page had been fetched
    response       \* export endpoint: the status and the rows of the answer

server == <<sheet, apiKey, now, run, prev, files>>
request == <<pc, upload, timestamp, stream, jsonlBuf, i, processedRows, item, error, res, hist>>
conversion == <<server, request>>
pair == <<clock, reqs, tmp>>
review == <<annotationConversation, origin, rendered>>
monitor == <<page, route, stored, view, timers, pollInterval, pending, started, runStatus, details,
            closure, logged>>
library == <<catalog, datasets, lastFileId, hasMore, loading, loadingMore, fetching>>
linking == <<localStorage, location, annotationsOf, awaiting, sent>>
uploading == <<file, convertedJsonlFile, isConverting, isUploading, converting, posted>>
selector == <<backend, listed, picker, committed, observers, inflight, asked>>
exporting == <<annotations, allAnnotations, after, exportPc, lateFailure, response>>
pages == <<library, linking, uploading, selector, exporting>>
LibraryRest == <<conversion, pair, review, monitor, linking, uploading, selector, exporting>>
LinkingRest == <<conversion, pair, review, monitor, library, uploading, selector, exporting>>
UploadRest == <<conversion, pair, review, monitor, library, linking, selector, exporting>>
SelectorRest == <<conversion, pair, review, monitor, library, linking, uploading, exporting>>
ExportRest == <<conversion, pair, review, monitor, library, linking, uploading, selector>>
\* the state that a single conversion request leaves alone
elsewhere == <<pair, review, monitor, pages>>
vars == <<conversion, elsewhere>>

\* hist.emitted: the rows whose lines were written, in order;
\* hist.called: the rows translateText was invoked for;
\* hist.failed: the rows whose translation failed;
\* hist.stubbed: every answer of the translation service was the stub's;
\* hist.faults: what went wrong outside translation;
\* hist.saved: file.mv resolved;  hist.read: XLSX.readFile was called
NoHist == [emitted |-> <<>>, called |-> {}, failed |-> {}, stubbed |-> TRUE,
           faults |-> {}, saved |-> FALSE, read |-> FALSE]

excelPath == ExcelPath(timestamp, upload.name)
jsonlPath == JsonlPath(timestamp, upload.name)

IdleRequest ==
    /\ pc = "idle"
    /\ upload = NoUpload
    /\ timestamp = 0
    /\ stream = "none"
    /\ jsonlBuf = <<>>
    /\ i = 0
    /\ processedRows = 0
    /\ item = NoItem
    /\ error = ""
    /\ res = <<>>
    /\ hist = NoHist

\* no conversion request has arrived
NoConversion ==
    /\ sheet = <<>>
    /\ apiKey = FALSE
    /\ now = 0
    /\ run = 1
    /\ prev = [res |-> <<>>, stubbed |-> TRUE]
    /\ files = {}
    /\ IdleRequest

\* the two handlers of the pair of requests
Requests == {1, 2}

\* a handler before its request arrives.  book is the upload whose rows
\* XLSX.readFile returned, content what readFileSync returned: sets of
\* requests, as is the content of a temp file (the requests whose data it
\* holds)
IdleHandler == [pc |-> "idle", name |-> <<>>, timestamp |-> 0, book |-> {}, content |-> {},
                status |-> 0]

PairIdle ==
    /\ clock = 0
    /\ reqs = [r \in Requests |-> IdleHandler]
    /\ tmp = <<>>

\* parseConversation has not been called
NotRendered == [threw |-> FALSE, value |-> <<>>, via |-> "none"]

ReviewIdle ==
    /\ annotationConversation = <<>>
    /\ origin = [style |-> "text", turns |-> <<>>, pad |-> "none"]
    /\ rendered = NotRendered

(***************************************************************************)
(* The run monitor: RunMonitorPage of ResultsDashboardPage.tsx, lines      *)
(* 382-545.  One life of the page: it is opened on one of its two routes,  *)
(* determines its ids, polls the status of the run and is unmounted.       *)
(***************************************************************************)
Null == "null"
RunIds == {"run_1", "run_2"}
EvalIds == {"eval_1"}
\* /runs/:runId and /evals/:evalId/run, the two routes of the page
Routes ==
    {[urlRunId |-> r, urlEvalId |-> Null] : r \in RunIds}
        \cup {[urlRunId |-> Null, urlEvalId |-> e] : e \in EvalIds}
NoRoute == [urlRunId |-> Null, urlEvalId |-> Null]
\* localStorage: the ids ConfigureRunPage stored when it started a run
Storages == [lastRunId : RunIds \cup {Null}, lastRunEvalId : EvalIds \cup {Null}]
NoStorage == [lastRunId |-> Null, lastRunEvalId |-> Null]
\* the statuses of a run; completed and failed are final
RunStatuses == {"in_progress", "completed", "failed"}
\* useRef(null), line 395
NoTimer == 0
\* useState of lines 387-392
FirstView ==
    [runId |-> Null, evalId |-> Null, runDetails |-> Null, loading |-> TRUE, error |-> Null]
MonitorIdle ==
    /\ page = "closed"
    /\ route = NoRoute
    /\ stored = NoStorage
    /\ view = FirstView
    /\ timers = {}
    /\ pollInterval = NoTimer
    /\ pending = 0
    /\ started = 0
    /\ runStatus = "in_progress"
    /\ details = Null
    /\ closure = [runId |-> Null, evalId |-> Null, runDetails |-> Null]
    /\ logged = <<>>

\* useState<string | undefined>(undefined), part_005 line 32
NoFileId == 0
\* no request of the dataset library is in flight
NoFetch == [kind |-> "none", after |-> NoFileId]
LibraryIdle ==
    /\ catalog = <<>>
    /\ datasets = <<>>
    /\ lastFileId = NoFileId
    /\ hasMore = TRUE
    /\ loading = TRUE
    /\ loadingMore = FALSE
    /\ fetching = NoFetch

\* localStorage holds none of the three ids
EmptyStorage == [lastRunEvalId |-> Null, lastRunId |-> Null, lastTestCriteriaId |-> Null]
\* the browser shows none of the pages of a run
Elsewhere == [page |-> "evals", runId |-> Null]
\* getAnnotations awaits nothing
NoWait == [evalId |-> Null, runId |-> Null]
LinkingIdle ==
    /\ localStorage = EmptyStorage
    /\ location = Elsewhere
    /\ annotationsOf = Null
    /\ awaiting = NoWait
    /\ sent = {}

\* useState<File | null>(null), part_003 lines 33 and 39
NoFile == [name |-> "", ext |-> "", source |-> ""]
UploadIdle ==
    /\ file = NoFile
    /\ convertedJsonlFile = NoFile
    /\ isConverting = FALSE
    /\ isUploading = FALSE
    /\ converting = {}
    /\ posted = NoFile

\* the state of the dataset selector after construction, ConfigureRunPage
\* lines 35-41
FirstPicker ==
    [open |-> FALSE, loadingDatasets |-> TRUE, loadingMoreDatasets |-> FALSE,
     hasMoreDatasets |-> TRUE, lastDatasetId |-> NoFileId]
SelectorIdle ==
    /\ backend = <<>>
    /\ listed = <<>>
    /\ picker = FirstPicker
    /\ committed = [state |-> FirstPicker, loader |-> FALSE]
    /\ observers = {}
    /\ inflight = <<>>
    /\ asked = <<>>

\* no answer of the export endpoint yet
NoResponse == [status |-> 0, rows |-> <<>>]
ExportIdle ==
    /\ annotations = <<>>
    /\ allAnnotations = <<>>
    /\ after = 0
    /\ exportPc = "idle"
    /\ lateFailure = FALSE
    /\ response = NoResponse

PagesIdle == LibraryIdle /\ LinkingIdle /\ UploadIdle /\ SelectorIdle /\ ExportIdle
LibraryRestIdle == NoConversion /\ PairIdle /\ ReviewIdle /\ MonitorIdle /\ LinkingIdle /\ UploadIdle /\ SelectorIdle /\ ExportIdle
LinkingRestIdle == NoConversion /\ PairIdle /\ ReviewIdle /\ MonitorIdle /\ LibraryIdle /\ UploadIdle /\ SelectorIdle /\ ExportIdle
UploadRestIdle == NoConversion /\ PairIdle /\ ReviewIdle /\ MonitorIdle /\ LibraryIdle /\ LinkingIdle /\ SelectorIdle /\ ExportIdle
SelectorRestIdle == NoConversion /\ PairIdle /\ ReviewIdle /\ MonitorIdle /\ LibraryIdle /\ LinkingIdle /\ UploadIdle /\ ExportIdle
ExportRestIdle == NoConversion /\ PairIdle /\ ReviewIdle /\ MonitorIdle /\ LibraryIdle /\ LinkingIdle /\ UploadIdle /\ SelectorIdle

ElsewhereIdle == PairIdle /\ ReviewIdle /\ MonitorIdle /\ PagesIdle

InitServer(sheets) ==
    /\ sheet \in sheets
    /\ apiKey \in BOOLEAN
    /\ now = 0
    /\ run = 1
    /\ prev = [res |-> <<>>, stubbed |-> TRUE]
    /\ files = {}

Init == InitServer(Sheets) /\ IdleRequest /\ ElsewhereIdle

(***************************************************************************)
(* The handler, one action per stretch of code between two awaits.         *)
(***************************************************************************)
\* files.js 218-221 and index.js 30-36: the outer catch hands the error to
\* the error middleware, which answers
OuterCatch(msg) ==
    /\ res' = Append(res, ErrorMiddleware(msg))
    /\ pc' = "done"

\* files.js 210-217: the inner catch; fs is the temp directory at that time.
\* With the Excel file on disk its unlink is awaited, else the error is
\* rethrown at once.
InnerCatch(msg, fs) ==
    IF excelPath \in fs
    THEN /\ pc' = "cleanup"
         /\ error' = msg
         /\ res' = res
    ELSE /\ OuterCatch(WrapError(msg))
         /\ error' = msg

\* files.js 99-137: the request arrives; validation, the two paths (Date.now()
\* is the clock at arrival), the temp directory, and the call of file.mv
Receive(u, mkdirFails) ==
    /\ pc = "idle"
    /\ upload' = u
    /\ UNCHANGED <<server, stream, jsonlBuf, i, processedRows, item, error>>
    /\ IF u.kind = "none"
       THEN /\ res' = Append(res, JsonResponse(400, MsgNoFile))
            /\ pc' = "done"
            /\ UNCHANGED <<timestamp, hist>>
       ELSE IF u.kind = "multi"
       THEN /\ OuterCatch(MsgNoName)
            /\ UNCHANGED <<timestamp, hist>>
       ELSE IF ~IsXlsx(u.name)
       THEN /\ res' = Append(res, JsonResponse(400, MsgNotXlsx))
            /\ pc' = "done"
            /\ UNCHANGED <<timestamp, hist>>
       ELSE /\ timestamp' = now
            /\ IF mkdirFails
               THEN /\ OuterCatch("EACCES: permission denied, mkdir")
                    /\ hist' = [hist EXCEPT !.faults = @ \cup {"mkdir"}]
               ELSE /\ pc' = "mv"
                    /\ res' = res
                    /\ hist' = hist

\* files.js 137: file.mv rejects; the file may have been written in part
MvReject(left) ==
    /\ pc = "mv"
    /\ files' = IF left THEN files \cup {excelPath} ELSE files
    /\ OuterCatch("ENOSPC: no space left on device, write")
    /\ hist' = [hist EXCEPT !.faults = @ \cup {"mv"}]
    /\ UNCHANGED <<sheet, apiKey, now, run, prev, upload, timestamp, stream, jsonlBuf, i,
                   processedRows, item, error>>

\* files.js 137-151: file.mv resolves; the workbook is read and parsed, which
\* may throw, and the write stream is created
MvResolve(readThrows) ==
    /\ pc = "mv"
    /\ files' = files \cup {excelPath}
    /\ UNCHANGED <<sheet, apiKey, now, run, prev, upload, timestamp, jsonlBuf, processedRows, item>>
    /\ IF readThrows
       THEN /\ InnerCatch("File is password-protected", files')
            /\ hist' = [hist EXCEPT !.saved = TRUE, !.read = TRUE, !.faults = @ \cup {"read"}]
            /\ UNCHANGED <<stream, i>>
       ELSE /\ stream' = "opening"
            /\ i' = 1
            /\ pc' = "loop"
            /\ hist' = [hist EXCEPT !.saved = TRUE, !.read = TRUE]
            /\ UNCHANGED <<error, res>>

\* files.js 186-187: the line of an item is written to the stream
WriteLine(it) ==
    /\ jsonlBuf' = jsonlBuf \o JsonlLine(it)
    /\ processedRows' = processedRows + 1
    /\ i' = i + 1

\* files.js 152-159: a row without id is skipped
RowSkip ==
    /\ pc = "loop"
    /\ i <= Len(sheet)
    /\ SkipRow(sheet[i])
    /\ i' = i + 1
    /\ UNCHANGED <<server, pc, upload, timestamp, stream, jsonlBuf, processedRows, item, error,
                   res, hist>>

\* files.js 161-187 for a row that needs no request to the translation
\* service: its conversation is empty (files.js 169), or translateText
\* returns at once because there is no API key (files.js 17-20)
RowEmit(t) ==
    /\ pc = "loop"
    /\ i <= Len(sheet)
    /\ ~SkipRow(sheet[i])
    /\ LET it == MakeItem(sheet[i], i, t)
           invoked == ShouldTranslate(it.conversation)
       IN  /\ ~invoked \/ ~apiKey
           /\ now' = IF Truthy(sheet[i].timestamp) THEN now ELSE t
           /\ WriteLine(IF invoked
                        THEN [it EXCEPT !.conversation = translateText(it.conversation, apiKey, Rejected)]
                        ELSE it)
           /\ hist' = [hist EXCEPT !.emitted = Append(@, i),
                                   !.called = IF invoked THEN @ \cup {i} ELSE @,
                                   !.failed = IF invoked THEN @ \cup {i} ELSE @]
    /\ UNCHANGED <<sheet, apiKey, run, prev, files, pc, upload, timestamp, stream, item, error, res>>

\* files.js 161-171 and 22-30: the fields of the row are resolved and the
\* request to the translation service is sent
RowTranslate(t) ==
    /\ pc = "loop"
    /\ i <= Len(sheet)
    /\ ~SkipRow(sheet[i])
    /\ LET it == MakeItem(sheet[i], i, t)
       IN  /\ ShouldTranslate(it.conversation)
           /\ apiKey
           /\ now' = IF Truthy(sheet[i].timestamp) THEN now ELSE t
           /\ item' = it
    /\ pc' = "translate"
    /\ hist' = [hist EXCEPT !.called = @ \cup {i}]
    /\ UNCHANGED <<sheet, apiKey, run, prev, files, upload, timestamp, stream, jsonlBuf, i,
                   processedRows, error, res>>

\* files.js 32-37 and 171-187: the request to the translation service ends,
\* translateText returns, the line is written
TranslateReply(reply) ==
    /\ pc = "translate"
    /\ WriteLine([item EXCEPT !.conversation = translateText(item.conversation, apiKey, reply)])
    /\ item' = NoItem
    /\ pc' = "loop"
    /\ hist' = [hist EXCEPT !.emitted = Append(@, i),
                            !.failed = IF TranslationFailed(apiKey, reply) THEN @ \cup {i} ELSE @,
                            !.stubbed = @ /\ reply = StubReply(item.conversation.s)]
    /\ UNCHANGED <<server, upload, timestamp, stream, error, res>>

\* files.js 190-194: after the last row the stream is ended and its finish
\* event awaited
LoopEnd ==
    /\ pc = "loop"
    /\ i > Len(sheet)
    /\ pc' = "finish"
    /\ UNCHANGED <<server, upload, timestamp, stream, jsonlBuf, i, processedRows, item, error,
                   res, hist>>

Awaiting == pc \in {"translate", "finish"}

\* fs.createWriteStream opens the file while the handler awaits
StreamOpen ==
    /\ Awaiting
    /\ stream = "opening"
    /\ stream' = "open"
    /\ files' = files \cup {jsonlPath}
    /\ UNCHANGED <<sheet, apiKey, now, run, prev, pc, upload, timestamp, jsonlBuf, i,
                   processedRows, item, error, res, hist>>

\* The open or a write of the stream fails: it emits 'error'.  The stream has
\* no 'error' listener (files.js 148, 194), so the event is an uncaught
\* exception that ends the process, and 'finish' is never emitted: the
\* handler does not resume.
StreamError ==
    /\ Awaiting
    /\ stream \in {"opening", "open"}
    /\ stream' = "errored"
    /\ pc' = "crashed"
    /\ hist' = [hist EXCEPT !.faults = @ \cup {"stream"}]
    /\ UNCHANGED <<server, upload, timestamp, jsonlBuf, i, processedRows, item, error, res>>

\* files.js 194-202: 'finish' is emitted; the JSONL file is read back, which
\* may throw, and the unlink of the Excel file is started
StreamFinish(readThrows) ==
    /\ pc = "finish"
    /\ stream = "open"
    /\ stream' = "finished"
    /\ IF readThrows
       THEN /\ InnerCatch("EMFILE: too many open files, open", files)
            /\ hist' = [hist EXCEPT !.faults = @ \cup {"readback"}]
       ELSE /\ pc' = "unlinkExcel"
            /\ UNCHANGED <<error, res, hist>>
    /\ UNCHANGED <<server, upload, timestamp, jsonlBuf, i, processedRows, item>>

\* files.js 202: unlinkAsync(excelPath) ends
UnlinkExcel(fails) ==
    /\ pc = "unlinkExcel"
    /\ IF fails
       THEN /\ InnerCatch("EPERM: operation not permitted, unlink", files)
            /\ hist' = [hist EXCEPT !.faults = @ \cup {"unlinkExcel"}]
            /\ files' = files
       ELSE /\ files' = files \ {excelPath}
            /\ pc' = "unlinkJsonl"
            /\ UNCHANGED <<error, res, hist>>
    /\ UNCHANGED <<sheet, apiKey, now, run, prev, upload, timestamp, stream, jsonlBuf, i,
                   processedRows, item>>

\* files.js 203-209: unlinkAsync(jsonlPath) ends; on success the attachment
\* is sent
UnlinkJsonl(fails) ==
    /\ pc = "unlinkJsonl"
    /\ IF fails
       THEN /\ InnerCatch("EPERM: operation not permitted, unlink", files)
            /\ hist' = [hist EXCEPT !.faults = @ \cup {"unlinkJsonl"}]
            /\ files' = files
       ELSE /\ files' = files \ {jsonlPath}
            /\ res' = Append(res, Attachment(jsonlBuf, upload.name))
            /\ pc' = "done"
            /\ UNCHANGED <<error, hist>>
    /\ UNCHANGED <<sheet, apiKey, now, run, prev, upload, timestamp, stream, jsonlBuf, i,
                   processedRows, item>>

\* files.js 213-216: the unlink of the Excel file in the inner catch ends (a
\* failure is logged and dropped), and the error is rethrown
CleanupUnlink(fails) ==
    /\ pc = "cleanup"
    /\ files' = IF fails THEN files ELSE files \ {excelPath}
    /\ OuterCatch(WrapError(error))
    /\ hist' = IF fails THEN [hist EXCEPT !.faults = @ \cup {"cleanup"}] ELSE hist
    /\ UNCHANGED <<sheet, apiKey, now, run, prev, upload, timestamp, stream, jsonlBuf, i,
                   processedRows, item, error>>

Times == now..MaxClock

Next ==
    \/ \E u \in Uploads, f \in BOOLEAN : Receive(u, f) /\ UNCHANGED elsewhere
    \/ \E left \in BOOLEAN : MvReject(left) /\ UNCHANGED elsewhere
    \/ \E f \in BOOLEAN : MvResolve(f) /\ UNCHANGED elsewhere
    \/ RowSkip /\ UNCHANGED elsewhere
    \/ \E t \in Times : RowEmit(t) /\ UNCHANGED elsewhere
    \/ \E t \in Times : RowTranslate(t) /\ UNCHANGED elsewhere
    \/ \E r \in Replies(item.conversation.s) : TranslateReply(r) /\ UNCHANGED elsewhere
    \/ LoopEnd /\ UNCHANGED elsewhere
    \/ StreamOpen /\ UNCHANGED elsewhere
    \/ StreamError /\ UNCHANGED elsewhere
    \/ \E f \in BOOLEAN : StreamFinish(f) /\ UNCHANGED elsewhere
    \/ \E f \in BOOLEAN : UnlinkExcel(f) /\ UNCHANGED elsewhere
    \/ \E f \in BOOLEAN : UnlinkJsonl(f) /\ UNCHANGED elsewhere
    \/ \E f \in BOOLEAN : CleanupUnlink(f) /\ UNCHANGED elsewhere

Spec == Init /\ [][Next]_vars

(***************************************************************************)
(* The same sheet converted a second time by the same server.              *)
(***************************************************************************)
TwiceRows == TextRows \cup TimeRows \cup {Row(Undef, Undef, Str(TextHi), Str(CellTime))}

InitTwice == InitServer(SeqsUpTo(TwiceRows, MaxTwiceRows)) /\ IdleRequest /\ ElsewhereIdle

\* the first request is over and the second arrives, some time later
NextRequest(t) ==
    /\ pc = "done"
    /\ run = 1
    /\ run' = 2
    /\ prev' = [res |-> res, stubbed |-> hist.stubbed]
    /\ now' = t
    /\ pc' = "idle"
    /\ upload' = NoUpload
    /\ timestamp' = 0
    /\ stream' = "none"
    /\ jsonlBuf' = <<>>
    /\ i' = 0
    /\ processedRows' = 0
    /\ item' = NoItem
    /\ error' = ""
    /\ res' = <<>>
    /\ hist' = NoHist
    /\ UNCHANGED <<sheet, apiKey, files, elsewhere>>

NextTwice ==
    \/ Next
    \/ \E t \in Times : NextRequest(t)

SpecTwice == InitTwice /\ [][NextTwice]_vars

(***************************************************************************)
(* Two conversion requests in flight: the handler of files.js 98-222 runs  *)
(* once per request, the handlers interleave at their awaits and share the *)
(* clock and the temp directory.  The rows, the translation and the faults *)
(* of the environment are those of Spec; here a handler is followed        *)
(* through the steps that touch the temp directory.                        *)
(***************************************************************************)
PairNames == {<<"a", ".", "x", "l", "s", "x">>, <<"b", ".", "x", "l", "s", "x">>}

\* files.js 128, 129 for request r
PairExcelPath(r) == ExcelPath(reqs[r].timestamp, reqs[r].name)
PairJsonlPath(r) == JsonlPath(reqs[r].timestamp, reqs[r].name)

\* fs.existsSync(path)
Exists(fs, path) == path \in DOMAIN fs
\* the file at path is created or replaced, with the data of the requests ws
WriteFile(fs, path, ws) == [q \in DOMAIN fs \cup {path} |-> IF q = path THEN ws ELSE fs[q]]
\* fs.unlink(path) of an existing file
RemoveFile(fs, path) == [q \in DOMAIN fs \ {path} |-> fs[q]]

\* files.js 210-221 for request r: the inner catch, with the temp directory
\* as it is then
PairInnerCatch(r, fs) ==
    IF Exists(fs, PairExcelPath(r))
    THEN reqs' = [reqs EXCEPT ![r].pc = "cleanup"]
    ELSE reqs' = [reqs EXCEPT ![r].pc = "done", ![r].status = 500]

\* files.js 99-137: request r arrives with a valid upload; Date.now() is
\* read and file.mv is called
PairReceive(r, nm) ==
    /\ reqs[r].pc = "idle"
    /\ reqs' = [reqs EXCEPT ![r].pc = "mv", ![r].name = nm, ![r].timestamp = clock]
    /\ UNCHANGED <<clock, tmp>>

\* files.js 137-148: file.mv resolves, the upload is at excelPath, replacing
\* what was there; the workbook is read from that path and the write stream
\* is created
PairMvResolve(r) ==
    /\ reqs[r].pc = "mv"
    /\ tmp' = WriteFile(tmp, PairExcelPath(r), {r})
    /\ reqs' = [reqs EXCEPT ![r].pc = "open", ![r].book = tmp'[PairExcelPath(r)]]
    /\ UNCHANGED clock

\* fs.createWriteStream(jsonlPath) opens the file with flag 'w' while the
\* handler awaits: the file is created, or truncated when it exists
PairStreamOpen(r) ==
    /\ reqs[r].pc = "open"
    /\ tmp' = WriteFile(tmp, PairJsonlPath(r), {})
    /\ reqs' = [reqs EXCEPT ![r].pc = "finish"]
    /\ UNCHANGED clock

\* files.js 190-202: the lines are flushed and 'finish' is emitted (after an
\* unlink of the path the lines went to a file without a name); the JSONL
\* file is read back and the unlink of the Excel file is started
PairStreamFinish(r) ==
    /\ reqs[r].pc = "finish"
    /\ LET p == PairJsonlPath(r)
       IN  IF Exists(tmp, p)
           THEN /\ tmp' = WriteFile(tmp, p, tmp[p] \cup {r})
                /\ reqs' = [reqs EXCEPT ![r].pc = "unlinkExcel", ![r].content = tmp'[p]]
           ELSE /\ tmp' = tmp
                /\ PairInnerCatch(r, tmp)
    /\ UNCHANGED clock

\* files.js 202: unlinkAsync(excelPath) ends; it rejects when the file is gone
PairUnlinkExcel(r) ==
    /\ reqs[r].pc = "unlinkExcel"
    /\ IF Exists(tmp, PairExcelPath(r))
       THEN /\ tmp' = RemoveFile(tmp, PairExcelPath(r))
            /\ reqs' = [reqs EXCEPT ![r].pc = "unlinkJsonl"]
       ELSE /\ tmp' = tmp
            /\ PairInnerCatch(r, tmp)
    /\ UNCHANGED clock

\* files.js 203-209: unlinkAsync(jsonlPath) ends; on success the content
\* read back is sent
PairUnlinkJsonl(r) ==
    /\ reqs[r].pc = "unlinkJsonl"
    /\ IF Exists(tmp, PairJsonlPath(r))
       THEN /\ tmp' = RemoveFile(tmp, PairJsonlPath(r))
            /\ reqs' = [reqs EXCEPT ![r].pc = "done", ![r].status = 200]
       ELSE /\ tmp' = tmp
            /\ PairInnerCatch(r, tmp)
    /\ UNCHANGED clock

\* files.js 213-221: the unlink of the inner catch ends, the error is
\* rethrown and answered by the error middleware
PairCleanupUnlink(r) ==
    /\ reqs[r].pc = "cleanup"
    /\ tmp' = IF Exists(tmp, PairExcelPath(r)) THEN RemoveFile(tmp, PairExcelPath(r)) ELSE tmp
    /\ reqs' = [reqs EXCEPT ![r].pc = "done", ![r].status = 500]
    /\ UNCHANGED clock

\* a millisecond passes
PairTick ==
    /\ clock < MaxPairClock
    /\ clock' = clock + 1
    /\ UNCHANGED <<reqs, tmp>>

InitPair == NoConversion /\ PairIdle /\ ReviewIdle /\ MonitorIdle /\ PagesIdle

NextPair ==
    \/ \E r \in Requests, nm \in PairNames : PairReceive(r, nm) /\ UNCHANGED <<conversion, review, monitor, pages>>
    \/ \E r \in Requests : PairMvResolve(r) /\ UNCHANGED <<conversion, review, monitor, pages>>
    \/ \E r \in Requests : PairStreamOpen(r) /\ UNCHANGED <<conversion, review, monitor, pages>>
    \/ \E r \in Requests : PairStreamFinish(r) /\ UNCHANGED <<conversion, review, monitor, pages>>
    \/ \E r \in Requests : PairUnlinkExcel(r) /\ UNCHANGED <<conversion, review, monitor, pages>>
    \/ \E r \in Requests : PairUnlinkJsonl(r) /\ UNCHANGED <<conversion, review, monitor, pages>>
    \/ \E r \in Requests : PairCleanupUnlink(r) /\ UNCHANGED <<conversion, review, monitor, pages>>
    \/ PairTick /\ UNCHANGED <<conversion, review, monitor, pages>>

SpecPair == InitPair /\ [][NextPair]_vars

(***************************************************************************)
(* The annotation review page (src/pages/AnnotationReviewPage.tsx):        *)
(* parseConversation, which renders the conversation string of an          *)
(* annotation.  Regular expressions are patterns, sequences of items: a    *)
(* literal, \s*, or a run of characters other than one given character.    *)
(***************************************************************************)
\* the characters \s of a regular expression matches and JSON.parse skips,
\* among those that conversation strings are written with
WhiteSpace == {" ", "\n", "\t"}

Lit(cs) == [k |-> "lit", cs |-> cs, min |-> 0]
\* \s*
Ws == [k |-> "ws", cs |-> <<>>, min |-> 0]
\* [^c]* and the capture ([^c]*)
Not(c) == [k |-> "not", cs |-> <<c>>, min |-> 0]
\* the capture ([^c]+)
NotSome(c) == [k |-> "not", cs |-> <<c>>, min |-> 1]

\* the least number of a set of numbers, d when the set is empty
LeastOr(S, d) == IF S = {} THEN d ELSE CHOOSE x \in S : \A y \in S : x <= y

\* the string s has the characters cs at position p
HasAt(s, p, cs) == p + Len(cs) - 1 <= Len(s) /\ SubSeq(s, p, p + Len(cs) - 1) = cs

\* s.startsWith(cs)
StartsWith(s, cs) == HasAt(s, 1, cs)

\* the character at position p of s belongs to the run of item it
InRun(s, p, it) == IF it.k = "ws" THEN s[p] \in WhiteSpace ELSE s[p] # it.cs[1]

\* where the longest run of item it that starts at position p ends: the
\* first position from p on that is outside the run
RunEnd(s, p, it) == LeastOr({q \in p..Len(s) : ~InRun(s, q, it)}, Len(s) + 1)

\* the positions at which a match of item it can end that starts at a
\* position of P: a run may stop early, for the items after it to match
ItemEnds(s, P, it) ==
    IF it.k = "lit" THEN {p + Len(it.cs) : p \in {q \in P : HasAt(s, q, it.cs)}}
    ELSE UNION {(p + it.min)..RunEnd(s, p, it) : p \in P}

RECURSIVE Ends(_, _, _)
\* the positions at which a match of pattern pat can end that starts at a
\* position of P
Ends(s, P, pat) ==
    IF pat = <<>> \/ P = {} THEN P
    ELSE Ends(s, ItemEnds(s, P, Head(pat)), Tail(pat))

RECURSIVE EndsOfStar(_, _, _)
RECURSIVE EndsOfMore(_, _, _, _)
\* the same for (?:pat)*, any number of matches of pat in a row
EndsOfStar(s, P, pat) == EndsOfMore(s, P, pat, P \cup Ends(s, P, pat))

\* Q is P and the positions one more match of pat leads to
EndsOfMore(s, P, pat, Q) == IF Q = P THEN P ELSE EndsOfStar(s, Q, pat)

NoMatch == [ok |-> FALSE, next |-> 0, caps |-> <<>>]

RECURSIVE MatchFrom(_, _, _, _)
RECURSIVE MatchRun(_, _, _, _, _)
\* the match of pattern pat at position p, with the captures (the runs of
\* characters other than a given one) in order.  Each run is taken as long
\* as it goes: in the patterns matched this way the item after a run starts
\* with a character outside the run, so no shorter run can match.
MatchFrom(s, p, pat, caps) ==
    IF pat = <<>> THEN [ok |-> TRUE, next |-> p, caps |-> caps]
    ELSE IF Head(pat).k = "lit"
    THEN IF HasAt(s, p, Head(pat).cs) THEN MatchFrom(s, p + Len(Head(pat).cs), Tail(pat), caps)
         ELSE NoMatch
    ELSE MatchRun(s, p, pat, caps, RunEnd(s, p, Head(pat)))

\* the first item of pat is a run, which ends at position e
MatchRun(s, p, pat, caps, e) ==
    IF e - p < Head(pat).min THEN NoMatch
    ELSE MatchFrom(s, e, Tail(pat),
                   IF Head(pat).k = "not" THEN Append(caps, SubSeq(s, p, e - 1)) ELSE caps)

MatchAt(s, p, pat) == MatchFrom(s, p, pat, <<>>)

\* the match of pat at position p, p = 0 standing for no match
Found(s, p, pat) == IF p = 0 THEN [at |-> 0, m |-> NoMatch] ELSE [at |-> p, m |-> MatchAt(s, p, pat)]

\* the leftmost match of pat that starts at position from or later
FirstMatch(s, from, pat) ==
    Found(s, LeastOr({p \in from..Len(s) : MatchAt(s, p, pat).ok}, 0), pat)

RECURSIVE ReplaceAll(_, _, _, _)
RECURSIVE ReplaceFound(_, _, _, _, _)
\* s.replace(/pat/g, rep) from position from on, rep a string
ReplaceAll(s, from, pat, rep) == ReplaceFound(s, from, pat, rep, FirstMatch(s, from, pat))

\* f is the leftmost match from position from on
ReplaceFound(s, from, pat, rep, f) ==
    IF f.at = 0 THEN SubSeq(s, from, Len(s))
    ELSE SubSeq(s, from, f.at - 1) \o rep \o ReplaceAll(s, f.m.next, pat, rep)

Apostrophe == "'"
DoubleQuote == "\""
BackSlash == "\\"

\* line 96: /'role'\s*:\s*'([^']*)'\s*,\s*'content'\s*:\s*'([^']*)'/
ExtractPattern ==
    <<Lit(<<"'", "r", "o", "l", "e", "'">>), Ws, Lit(<<":">>), Ws,
      Lit(<<"'">>), Not(Apostrophe), Lit(<<"'">>), Ws, Lit(<<",">>), Ws,
      Lit(<<"'", "c", "o", "n", "t", "e", "n", "t", "'">>), Ws, Lit(<<":">>), Ws,
      Lit(<<"'">>), Not(Apostrophe), Lit(<<"'">>)>>

\* line 92: one turn, \{[^}]*'role'\s*:\s*'([^']*)'\s*,\s*'content'\s*:\s*'([^']*)'\s*\}
TurnPattern == <<Lit(<<"{">>), Not("}")>> \o ExtractPattern \o <<Ws, Lit(<<"}">>)>>

\* line 92, 94: singleQuoteRegex.test(s): the pattern
\* \[\s* turn (?:\s*,\s* turn)* \s*\] matches somewhere in s
SingleQuoteTest(s) ==
    Ends(s,
         EndsOfStar(s,
                    Ends(s, 1..(Len(s) + 1), <<Lit(<<"[">>), Ws>> \o TurnPattern),
                    <<Ws, Lit(<<",">>), Ws>> \o TurnPattern),
         <<Ws, Lit(<<"]">>)>>) # {}

\* line 102: content.replace(/\\'/g, "'")
UnescapeQuotes(cs) == ReplaceAll(cs, 1, <<Lit(<<BackSlash, Apostrophe>>)>>, <<Apostrophe>>)

RECURSIVE ExtractTurns(_, _)
RECURSIVE ExtractFound(_, _)
\* lines 96-103: the role and the content of every match of the extraction
\* pattern, from position from on
ExtractTurns(s, from) == ExtractFound(s, FirstMatch(s, from, ExtractPattern))

\* f is the leftmost match
ExtractFound(s, f) ==
    IF f.at = 0 THEN <<>>
    ELSE <<[role |-> f.m.caps[1], content |-> UnescapeQuotes(f.m.caps[2])]>>
             \o ExtractTurns(s, f.m.next)

\* line 121: p2.replace(/"/g, '\\"')
EscapeDoubleQuotes(cs) == ReplaceAll(cs, 1, <<Lit(<<DoubleQuote>>)>>, <<BackSlash, DoubleQuote>>)

\* line 119: /"([^"]+)":\s*"([^"]*)"/
MemberPattern ==
    <<Lit(<<DoubleQuote>>), NotSome(DoubleQuote), Lit(<<DoubleQuote, ":">>), Ws,
      Lit(<<DoubleQuote>>), Not(DoubleQuote), Lit(<<DoubleQuote>>)>>

RECURSIVE ReplaceMembers(_, _)
RECURSIVE ReplaceMember(_, _, _)
\* lines 119-122: every match of the member pattern is replaced by
\* "p1": "p2", the double quotes inside p2 escaped
ReplaceMembers(s, from) == ReplaceMember(s, from, FirstMatch(s, from, MemberPattern))

\* f is the leftmost match from position from on
ReplaceMember(s, from, f) ==
    IF f.at = 0 THEN SubSeq(s, from, Len(s))
    ELSE SubSeq(s, from, f.at - 1)
             \o <<DoubleQuote>> \o f.m.caps[1] \o <<DoubleQuote, ":", " ", DoubleQuote>>
             \o EscapeDoubleQuotes(f.m.caps[2]) \o <<DoubleQuote>>
             \o ReplaceMembers(s, f.m.next)

\* lines 114-122: the repaired string
FixQuotes(s) ==
    ReplaceMembers(
        ReplaceAll(
            ReplaceAll(
                ReplaceAll(
                    ReplaceAll(s, 1, <<Lit(<<"[">>), Ws, Lit(<<"{">>)>>, <<"[", "{">>),
                    1, <<Lit(<<"}">>), Ws, Lit(<<"]">>)>>, <<"}", "]">>),
                1, <<Lit(<<"}">>), Ws, Lit(<<",">>), Ws, Lit(<<"{">>)>>, <<"}", ",", "{">>),
            1, <<Lit(<<Apostrophe>>)>>, <<DoubleQuote>>),
        1)

\* JSON.parse (lines 109, 124).  A value is [t, n, s, m]: t its type, n the
\* number (or 1, 0 for true, false), s the string, m the elements of an
\* array or the <<key, value>> members of an object.  Strings are read with
\* the escapes \" \\ \/ \n \t \r \f, numbers as digits: conversation strings
\* are written here without \b, \u, signs, fractions and exponents.
Undefined == [t |-> "undef", n |-> 0, s |-> <<>>, m |-> <<>>]
JsonNull == [t |-> "null", n |-> 0, s |-> <<>>, m |-> <<>>]
JsonBool(b) == [t |-> "bool", n |-> IF b THEN 1 ELSE 0, s |-> <<>>, m |-> <<>>]
JsonNum(k) == [t |-> "num", n |-> k, s |-> <<>>, m |-> <<>>]
JsonStr(cs) == [t |-> "str", n |-> 0, s |-> cs, m |-> <<>>]
JsonArr(es) == [t |-> "arr", n |-> 0, s |-> <<>>, m |-> es]
JsonObj(ms) == [t |-> "obj", n |-> 0, s |-> <<>>, m |-> ms]

JsonFail == [ok |-> FALSE, next |-> 0, v |-> Undefined]
JsonOk(nxt, val) == [ok |-> TRUE, next |-> nxt, v |-> val]

\* the position after the white space that starts at position p
JsonSkip(s, p) == RunEnd(s, p, Ws)

\* the character at position p of s is c
IsAt(s, p, c) == p <= Len(s) /\ s[p] = c

\* the character an escape stands for, "" when there is no such escape
JsonEscape(c) ==
    IF c \in {DoubleQuote, BackSlash, "/"} THEN c
    ELSE IF c = "n" THEN "\n"
    ELSE IF c = "t" THEN "\t"
    ELSE IF c = "r" THEN "\r"
    ELSE IF c = "f" THEN "\f"
    ELSE ""

RECURSIVE JsonChars(_, _, _)
\* the characters of a string literal after its opening quote
JsonChars(s, p, acc) ==
    IF p > Len(s) THEN JsonFail
    ELSE IF s[p] = DoubleQuote THEN JsonOk(p + 1, JsonStr(acc))
    ELSE IF s[p] \in {"\n", "\t", "\r", "\f"} THEN JsonFail
    ELSE IF s[p] = BackSlash THEN
        IF p + 1 > Len(s) \/ JsonEscape(s[p + 1]) = "" THEN JsonFail
        ELSE JsonChars(s, p + 2, Append(acc, JsonEscape(s[p + 1])))
    ELSE JsonChars(s, p + 1, Append(acc, s[p]))

JsonString(s, p) == IF IsAt(s, p, DoubleQuote) THEN JsonChars(s, p + 1, <<>>) ELSE JsonFail

RECURSIVE JsonDigits(_, _, _)
JsonDigits(s, p, acc) ==
    IF p <= Len(s) /\ IsDigit(s[p]) THEN JsonDigits(s, p + 1, acc * 10 + DigitValue(s[p]))
    ELSE JsonOk(p, JsonNum(acc))

\* a number: digits, no leading zero unless the number is 0
JsonNumber(s, p) ==
    IF p > Len(s) \/ ~IsDigit(s[p]) THEN JsonFail
    ELSE IF s[p] = "0" /\ p < Len(s) /\ IsDigit(s[p + 1]) THEN JsonFail
    ELSE JsonDigits(s, p, 0)

RECURSIVE JsonValue(_, _)
RECURSIVE JsonValueAt(_, _)
RECURSIVE JsonElements(_, _, _)
RECURSIVE JsonElement(_, _, _)
RECURSIVE JsonMembers(_, _, _)
RECURSIVE JsonMember(_, _, _)
RECURSIVE JsonMemberValue(_, _, _, _)

\* what follows a read element or member x: a comma and more, or the
\* closing character
JsonAfter(s, x, q, close) ==
    IF ~x.ok \/ q > Len(s) THEN "fail"
    ELSE IF s[q] = "," THEN "more"
    ELSE IF s[q] = close THEN "end"
    ELSE "fail"

\* the elements of an array from position p on, up to and with the closing
\* bracket
JsonElements(s, p, acc) == JsonElement(s, acc, JsonValue(s, p))

\* x is the element just read
JsonElement(s, acc, x) ==
    IF JsonAfter(s, x, JsonSkip(s, x.next), "]") = "more"
    THEN JsonElements(s, JsonSkip(s, x.next) + 1, Append(acc, x.v))
    ELSE IF JsonAfter(s, x, JsonSkip(s, x.next), "]") = "end"
    THEN JsonOk(JsonSkip(s, x.next) + 1, JsonArr(Append(acc, x.v)))
    ELSE JsonFail

\* the members of an object from position p on, up to and with the closing
\* brace
JsonMembers(s, p, acc) == JsonMember(s, acc, JsonString(s, JsonSkip(s, p)))

\* key is the name just read
JsonMember(s, acc, key) ==
    IF ~key.ok \/ ~IsAt(s, JsonSkip(s, key.next), ":") THEN JsonFail
    ELSE JsonMemberValue(s, acc, key.v.s, JsonValue(s, JsonSkip(s, key.next) + 1))

\* x is the value just read of the member named name
JsonMemberValue(s, acc, name, x) ==
    IF JsonAfter(s, x, JsonSkip(s, x.next), "}") = "more"
    THEN JsonMembers(s, JsonSkip(s, x.next) + 1, Append(acc, <<name, x.v>>))
    ELSE IF JsonAfter(s, x, JsonSkip(s, x.next), "}") = "end"
    THEN JsonOk(JsonSkip(s, x.next) + 1, JsonObj(Append(acc, <<name, x.v>>)))
    ELSE JsonFail

\* the value that starts after the white space at position p
JsonValue(s, p) == JsonValueAt(s, JsonSkip(s, p))

\* the value that starts at position p
JsonValueAt(s, p) ==
    IF p > Len(s) THEN JsonFail
    ELSE IF s[p] = "[" THEN
        IF IsAt(s, JsonSkip(s, p + 1), "]") THEN JsonOk(JsonSkip(s, p + 1) + 1, JsonArr(<<>>))
        ELSE JsonElements(s, p + 1, <<>>)
    ELSE IF s[p] = "{" THEN
        IF IsAt(s, JsonSkip(s, p + 1), "}") THEN JsonOk(JsonSkip(s, p + 1) + 1, JsonObj(<<>>))
        ELSE JsonMembers(s, p + 1, <<>>)
    ELSE IF s[p] = DoubleQuote THEN JsonString(s, p)
    ELSE IF HasAt(s, p, <<"n", "u", "l", "l">>) THEN JsonOk(p + 4, JsonNull)
    ELSE IF HasAt(s, p, <<"t", "r", "u", "e">>) THEN JsonOk(p + 4, JsonBool(TRUE))
    ELSE IF HasAt(s, p, <<"f", "a", "l", "s", "e">>) THEN JsonOk(p + 5, JsonBool(FALSE))
    ELSE JsonNumber(s, p)

\* x is the value read at the start of s: it must be all of s
JsonWhole(s, x) == IF x.ok /\ JsonSkip(s, x.next) = Len(s) + 1 THEN x ELSE JsonFail

\* JSON.parse(s); not ok when it throws
JsonParse(s) == JsonWhole(s, JsonValue(s, 1))

RECURSIVE Join(_, _)
\* strs.join(sep)
Join(strs, sep) ==
    IF strs = <<>> THEN <<>>
    ELSE IF Len(strs) = 1 THEN strs[1]
    ELSE strs[1] \o sep \o Join(Tail(strs), sep)

RECURSIVE TemplateString(_)
\* the string a value becomes inside a template literal
TemplateString(v) ==
    IF v.t = "str" THEN v.s
    ELSE IF v.t = "num" THEN Digits(v.n)
    ELSE IF v.t = "bool" THEN IF v.n = 1 THEN <<"t", "r", "u", "e">> ELSE <<"f", "a", "l", "s", "e">>
    ELSE IF v.t = "null" THEN <<"n", "u", "l", "l">>
    ELSE IF v.t = "undef" THEN <<"u", "n", "d", "e", "f", "i", "n", "e", "d">>
    ELSE IF v.t = "obj"
    THEN <<"[", "o", "b", "j", "e", "c", "t", " ", "O", "b", "j", "e", "c", "t", "]">>
    ELSE Join([k \in 1..Len(v.m) |-> IF v.m[k].t \in {"null", "undef"} THEN <<>>
                                     ELSE TemplateString(v.m[k])], <<",">>)

KeyRole == <<"r", "o", "l", "e">>
KeyContent == <<"c", "o", "n", "t", "e", "n", "t">>

\* the value of the last of the members of obj at the positions hits,
\* undefined when there is none
LastMember(obj, hits) ==
    IF hits = {} THEN Undefined ELSE obj.m[CHOOSE k \in hits : \A j \in hits : j <= k][2]

\* turn.role, turn.content of a turn that is not null: the last member of
\* that name of an object, undefined otherwise
Property(turn, key) ==
    IF turn.t # "obj" THEN Undefined
    ELSE LastMember(turn, {k \in 1..Len(turn.m) : turn.m[k][1] = key})

\* line 135: `**${turn.role}**: ${turn.content}`
RenderTurn(turn) ==
    <<"*", "*">> \o TemplateString(Property(turn, KeyRole)) \o <<"*", "*", ":", " ">>
        \o TemplateString(Property(turn, KeyContent))

\* a variant of line 136 that joins the turns with one newline
RenderTurnsOnLines(data) == Join([k \in 1..Len(data) |-> RenderTurn(data[k])], <<"\n">>)

\* lines 134-136: the turns in order, a blank line between two turns
RenderTurns(data) == Join([k \in 1..Len(data) |-> RenderTurn(data[k])], <<"\n", "\n">>)

\* lines 100-103: the objects made of the matches
TurnObjects(turns) ==
    JsonArr([k \in 1..Len(turns) |->
                JsonObj(<<<<KeyRole, JsonStr(turns[k].role)>>,
                          <<KeyContent, JsonStr(turns[k].content)>>>>)])

\* what parseConversation hands back: it returns value, or throws; via
\* tells the way it took
Returned(val, way) == [threw |-> FALSE, value |-> val, via |-> way]
Thrown == [threw |-> TRUE, value |-> <<>>, via |-> "thrown"]

\* a variant of line 90 that looks at the first character only
LooksBracketedAtStart(conversationStr) == StartsWith(conversationStr, <<"[">>)

\* line 90
LooksBracketed(conversationStr) ==
    StartsWith(conversationStr, <<"[">>) /\ EndsWith(conversationStr, <<"]">>)

NoData == [data |-> Undefined, via |-> "failed"]

\* lines 99-104: conversationData of the matches
FromMatches(matches) ==
    IF Len(matches) > 0 THEN [data |-> TurnObjects(matches), via |-> "regex"] ELSE NoData

\* lines 124-128: conversationData of the parse x of the repaired string
FromRepair(x) == IF x.ok THEN [data |-> x.v, via |-> "repair"] ELSE NoData

\* lines 107-129: conversationData of the parse x of the string
FromJson(conversationStr, x) ==
    IF x.ok THEN [data |-> x.v, via |-> "json"]
    ELSE FromRepair(JsonParse(FixQuotes(conversationStr)))

\* lines 92-130: conversationData and the strategy that gave it
ConversationData(conversationStr) ==
    IF SingleQuoteTest(conversationStr) THEN FromMatches(ExtractTurns(conversationStr, 1))
    ELSE FromJson(conversationStr, JsonParse(conversationStr))

\* a variant of line 141 that returns the empty string
AsIsEmpty(conversationStr, way) == Returned(<<>>, way)

\* line 141: return conversationStr
AsIs(conversationStr, way) == Returned(conversationStr, way)

\* lines 133-141: the rendering of conversationData c; reading turn.role of
\* a turn that is null throws a TypeError
Rendering(conversationStr, c) ==
    IF c.data.t # "arr" THEN AsIs(conversationStr, c.via)
    ELSE IF \E k \in 1..Len(c.data.m) : c.data.m[k].t \in {"null", "undef"} THEN Thrown
    ELSE Returned(RenderTurns(c.data.m), c.via)

\* lines 86-141, the body of the try block
TryParse(conversationStr) ==
    IF ~LooksBracketed(conversationStr) THEN AsIs(conversationStr, "plain")
    ELSE Rendering(conversationStr, ConversationData(conversationStr))

\* lines 142-145: the catch returns the string as it is
Catch(conversationStr, r) == IF r.threw THEN Returned(conversationStr, "caught") ELSE r

\* a variant of parseConversation without the catch of lines 142-145
parseConversationNoCatch(conversationStr) == TryParse(conversationStr)

\* lines 84-146
parseConversation(conversationStr) == Catch(conversationStr, TryParse(conversationStr))

\* The conversation strings the page is given: lists of turns written out
\* in the Python style (single quotes, an apostrophe written \') and as JSON
\* (an apostrophe written as it is, or with a backslash), compact or spaced,
\* alone or with a space before or after; and other strings.
RoleUser == <<"u", "s", "e", "r">>
RoleAssistant == <<"a", "s", "s", "i", "s", "t", "a", "n", "t">>
TextFine == <<"I", "t", "'", "s", " ", "f", "i", "n", "e">>
TextSaid == <<"a", "\"", "b">>
Roles == {RoleUser, RoleAssistant}
Contents == {TextHi, <<>>, TextFine, TextSaid}
Turns == {[role |-> r, content |-> c] : r \in Roles, c \in Contents}
TurnLists == SeqsUpTo(Turns, MaxTurns)

\* a string as a literal of the style
Quoted(cs, style) ==
    IF style = "single"
    THEN <<Apostrophe>> \o ReplaceAll(cs, 1, <<Lit(<<Apostrophe>>)>>, <<BackSlash, Apostrophe>>)
             \o <<Apostrophe>>
    ELSE IF style = "json" THEN JSONString(cs)
    ELSE ReplaceAll(JSONString(cs), 1, <<Lit(<<Apostrophe>>)>>, <<BackSlash, Apostrophe>>)

WriteTurn(turn, style, sp) ==
    <<"{">> \o Quoted(KeyRole, style) \o <<":">> \o sp \o Quoted(turn.role, style) \o <<",">> \o sp
        \o Quoted(KeyContent, style) \o <<":">> \o sp \o Quoted(turn.content, style) \o <<"}">>

WriteList(turns, style, sp) ==
    <<"[">> \o Join([k \in 1..Len(turns) |-> WriteTurn(turns[k], style, sp)], <<",">> \o sp)
        \o <<"]">>

Styles == {"single", "json", "jsonEscaped"}
Spacings == {<<>>, <<" ">>}

Conversation(str, style, turns, pad) ==
    [str |-> str, origin |-> [style |-> style, turns |-> turns, pad |-> pad]]

WrittenLists ==
    {Conversation(WriteList(turns, style, sp), style, turns, "none") :
        turns \in TurnLists, style \in Styles, sp \in Spacings}

\* a list of one turn with a space before or after it
PaddedLists ==
    {Conversation(WriteList(<<t>>, style, <<" ">>) \o <<" ">>, style, <<t>>, "after") :
        t \in Turns, style \in Styles}
    \cup {Conversation(<<" ">> \o WriteList(<<t>>, style, <<" ">>), style, <<t>>, "before") :
        t \in Turns, style \in Styles}

\* [{'role': 'user', 'content': "It's fine"}], as Python prints the turn
MixedQuotes ==
    <<"[", "{">> \o Quoted(KeyRole, "single") \o <<":", " ">> \o Quoted(RoleUser, "single")
        \o <<",", " ">> \o Quoted(KeyContent, "single") \o <<":", " ">> \o Quoted(TextFine, "json")
        \o <<"}", "]">>

OtherStrings ==
    {<<>>, <<"n", "o", "t", " ", "a", " ", "l", "i", "s", "t">>, <<"[">>, <<"]">>,
     <<"[", "a", "]">>, <<"[", "a">>, <<"a", "]">>, <<"[", "n", "u", "l", "l", "]">>,
     <<"[", "1", ",", " ", "\"", "a", "\"", "]">>, <<"[", "1", "]", "\n">>,
     <<"{", "\"", "r", "o", "l", "e", "\"", ":", "1", "}">>,
     <<"[", "{", "\"", "r", "o", "l", "e", "\"", ":", "1", "}", "]">>,
     <<"[", "{", "'", "r", "o", "l", "e", "'", ":", "1", "}", "]">>,
     <<"[", "[", "]", ",", "t", "r", "u", "e", "]">>,
     MixedQuotes}

Conversations ==
    WrittenLists \cup PaddedLists \cup {Conversation(str, "text", <<>>, "none") : str \in OtherStrings}

\* line 540: the page renders the conversation of an annotation
RenderConversation ==
    /\ rendered.via = "none"
    /\ rendered' = parseConversation(annotationConversation)
    /\ UNCHANGED <<annotationConversation, origin>>

InitReview ==
    /\ NoConversion
    /\ PairIdle
    /\ MonitorIdle
    /\ PagesIdle
    /\ \E c \in Conversations : annotationConversation = c.str /\ origin = c.origin
    /\ rendered = NotRendered

NextReview == RenderConversation /\ UNCHANGED <<conversion, pair, monitor, pages>>

SpecReview == InitReview /\ [][NextReview]_vars

(***************************************************************************)
(* The run monitor: its effects, its timer and its status requests.        *)
(***************************************************************************)
\* the effect of lines 398-432: the ids the page will use
DetermineIds(v, rt, st) ==
    IF rt.urlRunId # Null /\ rt.urlEvalId = Null
    THEN IF st.lastRunEvalId # Null /\ st.lastRunId = rt.urlRunId
         THEN [v EXCEPT !.runId = rt.urlRunId, !.evalId = st.lastRunEvalId]
         ELSE [v EXCEPT !.runId = rt.urlRunId]
    ELSE IF rt.urlEvalId # Null /\ rt.urlRunId = Null
    THEN [v EXCEPT !.evalId = rt.urlEvalId]
    ELSE IF rt.urlEvalId # Null /\ rt.urlRunId # Null
    THEN [v EXCEPT !.evalId = rt.urlEvalId, !.runId = rt.urlRunId]
    ELSE [v EXCEPT !.error = "Missing run ID or evaluation ID", !.loading = FALSE]

\* the lines the effect of lines 398-432 appends to the log
InitializingLog(rt) ==
    IF rt.urlRunId = Null /\ rt.urlEvalId = Null THEN <<>> ELSE <<"Initializing run monitor">>

\* setState of an unmounted component changes nothing
SetView(v) == view' = IF page = "unmounted" THEN view ELSE v

\* clearInterval(pollInterval.current) under if (pollInterval.current)
ClearPollInterval ==
    timers' = IF pollInterval # NoTimer THEN timers \ {pollInterval} ELSE timers

\* line 514, a status that ends the polling, restricted to success
StopsPollingOnSuccess(status) == status = "completed"
\* line 514: details.status === "completed" || details.status === "failed"
StopsPolling(status) == status = "completed" \/ status = "failed"

\* runId, evalId and runDetails as the render of the polling effect saw
\* them: fetchRunDetails, passed to setInterval at line 536, keeps reading
\* these
Captured(v) == [runId |-> v.runId, evalId |-> v.evalId, runDetails |-> v.runDetails]

\* fetchRunDetails up to its await, lines 471-486, with the ids of its
\* render
fetchRunDetails(c) ==
    IF c.runId = Null
    THEN /\ SetView([view EXCEPT !.error = "Missing run ID", !.loading = FALSE])
         /\ UNCHANGED <<pending, started>>
    ELSE IF c.evalId = Null
    THEN /\ SetView([view EXCEPT !.error = "Missing evaluation ID", !.loading = FALSE])
         /\ UNCHANGED <<pending, started>>
    ELSE /\ pending' = pending + 1
         /\ started' = started + 1
         /\ UNCHANGED view

\* lines 489-507: the log lines about the status of the run, where before is
\* the runDetails fetchRunDetails reads
StatusLog(before, status) ==
    IF before = Null
    THEN <<"Run details fetched">>
             \o (CASE status = "in_progress" -> <<"Run is in progress...">>
                   [] status = "completed" -> <<"Run completed successfully!">>
                   [] status = "failed" -> <<"Run failed">>
                   [] OTHER -> <<>>)
    ELSE IF before # status
    THEN CASE status = "completed" -> <<"Run completed successfully!", "Results">>
           [] status = "failed" -> <<"Run failed">>
           [] OTHER -> <<>>
    ELSE <<>>

\* lines 514-519: the log line of the end of the polling
StopLog(status) ==
    IF StopsPolling(status) /\ pollInterval # NoTimer
    THEN <<"Polling stopped - run is in final state">>
    ELSE <<>>

\* the page is mounted on a route: first render and its effects.  The
\* polling effect of lines 530-545 sees the ids still null and does nothing.
Open(rt) ==
    /\ page = "closed"
    /\ page' = "opened"
    /\ route' = rt
    /\ view' = DetermineIds(view, rt, stored)
    /\ logged' = InitializingLog(rt)
    /\ UNCHANGED <<stored, timers, pollInterval, pending, started, runStatus, details, closure>>

\* the polling effect of lines 530-545 after a render with new ids, which
\* never clears the timer of its earlier run
PollingEffectNoCleanup ==
    /\ page = "opened"
    /\ page' = "shown"
    /\ IF view.runId # Null /\ view.evalId # Null
       THEN /\ fetchRunDetails(Captured(view))
            /\ closure' = Captured(view)
            /\ pollInterval' = pollInterval + 1
            /\ timers' = timers \cup {pollInterval + 1}
       ELSE UNCHANGED <<view, timers, pollInterval, pending, started, closure>>
    /\ logged' = <<>>
    /\ UNCHANGED <<route, stored, runStatus, details>>

\* the polling effect of lines 530-545 after a render with new ids: the
\* cleanup of its earlier run (lines 539-543), the initial fetch, the
\* interval
PollingEffect ==
    /\ page = "opened"
    /\ page' = "shown"
    /\ IF view.runId # Null /\ view.evalId # Null
       THEN /\ fetchRunDetails(Captured(view))
            /\ closure' = Captured(view)
            /\ pollInterval' = pollInterval + 1
            /\ timers' = (timers \ {pollInterval}) \cup {pollInterval + 1}
       ELSE UNCHANGED <<view, timers, pollInterval, pending, started, closure>>
    /\ logged' = <<>>
    /\ UNCHANGED <<route, stored, runStatus, details>>

\* the interval of line 536 elapses
Tick ==
    /\ \E t \in timers : TRUE
    /\ started < MaxFetches
    /\ fetchRunDetails(closure)
    /\ logged' = <<>>
    /\ UNCHANGED <<page, route, stored, timers, pollInterval, runStatus, details, closure>>

\* getRunDetails resolves, lines 486-519
Respond ==
    /\ pending > 0
    /\ pending' = pending - 1
    /\ details' = runStatus
    /\ logged' = StatusLog(closure.runDetails, runStatus) \o StopLog(runStatus)
    /\ SetView([view EXCEPT !.runDetails = runStatus, !.loading = FALSE])
    /\ IF StopsPolling(runStatus) THEN ClearPollInterval ELSE UNCHANGED timers
    /\ UNCHANGED <<page, route, stored, pollInterval, started, runStatus, closure>>

\* getRunDetails rejects, and the catch gives up polling
RespondErrorStops ==
    /\ pending > 0
    /\ pending' = pending - 1
    /\ logged' = <<"Error fetching run details">>
    /\ SetView([view EXCEPT !.error = "Failed to fetch", !.loading = FALSE])
    /\ ClearPollInterval
    /\ UNCHANGED <<page, route, stored, pollInterval, started, runStatus, details, closure>>

\* getRunDetails rejects (network error or an answer that is not 2xx),
\* lines 520-526
RespondError ==
    /\ pending > 0
    /\ pending' = pending - 1
    /\ logged' = <<"Error fetching run details">>
    /\ SetView([view EXCEPT !.error = "Failed to fetch", !.loading = FALSE])
    /\ UNCHANGED <<page, route, stored, timers, pollInterval, started, runStatus, details, closure>>

\* the annotation service finishes the run
RunEnds(status) ==
    /\ runStatus = "in_progress"
    /\ status # "in_progress"
    /\ runStatus' = status
    /\ UNCHANGED <<page, route, stored, view, timers, pollInterval, pending, started, details,
                   closure, logged>>

\* the page is left: the cleanups of lines 436-440 and 539-543
Unmount ==
    /\ page \in {"opened", "shown"}
    /\ page' = "unmounted"
    /\ ClearPollInterval
    /\ logged' = <<>>
    /\ UNCHANGED <<route, stored, view, pollInterval, pending, started, runStatus, details, closure>>

InitMonitor ==
    /\ NoConversion /\ PairIdle /\ ReviewIdle /\ PagesIdle
    /\ page = "closed"
    /\ route = NoRoute
    /\ stored \in Storages
    /\ view = FirstView
    /\ timers = {}
    /\ pollInterval = NoTimer
    /\ pending = 0
    /\ started = 0
    /\ runStatus = "in_progress"
    /\ details = Null
    /\ closure = Captured(FirstView)
    /\ logged = <<>>

NextMonitor ==
    \/ \E rt \in Routes : Open(rt) /\ UNCHANGED <<conversion, pair, review, pages>>
    \/ PollingEffect /\ UNCHANGED <<conversion, pair, review, pages>>
    \/ Tick /\ UNCHANGED <<conversion, pair, review, pages>>
    \/ Respond /\ UNCHANGED <<conversion, pair, review, pages>>
    \/ RespondError /\ UNCHANGED <<conversion, pair, review, pages>>
    \/ \E status \in RunStatuses : RunEnds(status) /\ UNCHANGED <<conversion, pair, review, pages>>
    \/ Unmount /\ UNCHANGED <<conversion, pair, review, pages>>

SpecMonitor == InitMonitor /\ [][NextMonitor]_vars

\* the steps the page takes by itself once it is open
MonitorProgress == (PollingEffect \/ Tick \/ Respond \/ RespondError)
                       /\ UNCHANGED <<conversion, pair, review, pages>>
\* effects run, the interval elapses and requests are answered
SpecMonitorFair == SpecMonitor /\ WF_vars(MonitorProgress)

\* the browser moves the mounted page to another of its routes (history
\* back or forward between two monitor URLs): the effect of lines 398-432
\* runs again on the state the page has, and the run the page now names has
\* a status of its own
Navigate(rt) ==
    /\ page = "shown"
    /\ rt # route
    /\ started < MaxFetches
    /\ route' = rt
    /\ view' = DetermineIds(view, rt, stored)
    /\ page' = IF Captured(DetermineIds(view, rt, stored)) # Captured(view)
               THEN "opened" ELSE "shown"
    /\ runStatus' \in RunStatuses
    /\ logged' = InitializingLog(rt)
    /\ UNCHANGED <<stored, timers, pollInterval, pending, started, details, closure>>

NextMonitorRoutes ==
    \/ NextMonitor
    \/ \E rt \in Routes : Navigate(rt) /\ UNCHANGED <<conversion, pair, review, pages>>

SpecMonitorRoutes == InitMonitor /\ [][NextMonitorRoutes]_vars

(***************************************************************************)
(* The dataset library: DatasetLibraryPage (part_005) and getDatasets      *)
(* (part_001, lines 242-282).                                              *)
(***************************************************************************)
\* limit: number = 8, and the 8 of setHasMore(data.length === 8)
PageSize == 8
\* the ids of n files as the backend lists them (order=desc)
Catalog(n) == [k \in 1..n |-> n + 1 - k]
Catalogs == {Catalog(n) : n \in 0..MaxDatasets}
\* where the file with this id stands in the list
PositionOf(list, id) == LeastOr({k \in 1..Len(list) : list[k] = id}, 0)
\* the files after position from, lim of them at most
FilesFrom(list, from, lim) ==
    SubSeq(list, from + 1, IF from + lim < Len(list) THEN from + lim ELSE Len(list))
\* GET /v1/files?limit=..&after=..: the page after the cursor
FilesPage(list, cursor, lim) ==
    FilesFrom(list, IF cursor = NoFileId THEN 0 ELSE PositionOf(list, cursor), lim)
\* getDatasets: the page, or the empty list when the request failed
getDatasets(list, cursor, ok) ==
    IF ok THEN FilesPage(list, cursor, PageSize) ELSE <<>>

\* lines 88-94 and 119-124: the cursor and hasMore after a page
AfterPage(data) ==
    /\ lastFileId' = IF Len(data) > 0 THEN data[Len(data)] ELSE lastFileId
    /\ hasMore' = (Len(data) = PageSize)
    /\ fetching' = NoFetch
    /\ UNCHANGED catalog

\* the first page arrives, lines 84-98
FirstPage(data) ==
    /\ datasets' = data
    /\ loading' = FALSE
    /\ AfterPage(data)
    /\ UNCHANGED loadingMore

fetchDatasetsAnswer(ok) ==
    /\ fetching.kind = "first"
    /\ FirstPage(getDatasets(catalog, NoFileId, ok))

\* the loader comes into view: handleObserver, lines 46-54, and
\* loadMoreDatasets up to its await, lines 106-112
loadMoreDatasets ==
    /\ hasMore /\ ~loadingMore /\ ~loading
    /\ ~(~hasMore \/ loadingMore \/ lastFileId = NoFileId)
    /\ loadingMore' = TRUE
    /\ fetching' = [kind |-> "more", after |-> lastFileId]
    /\ UNCHANGED <<catalog, datasets, lastFileId, hasMore, loading>>

\* a further page arrives, lines 112-129
MorePage(more) ==
    /\ datasets' = IF Len(more) > 0 THEN datasets \o more ELSE datasets
    /\ loadingMore' = FALSE
    /\ AfterPage(more)
    /\ UNCHANGED loading

loadMoreAnswer(ok) ==
    /\ fetching.kind = "more"
    /\ MorePage(getDatasets(catalog, fetching.after, ok))

\* the page is mounted: the effect of lines 80-103 has asked for the first
\* page
InitLibrary ==
    /\ LibraryRestIdle
    /\ catalog \in Catalogs
    /\ datasets = <<>>
    /\ lastFileId = NoFileId
    /\ hasMore = TRUE
    /\ loading = TRUE
    /\ loadingMore = FALSE
    /\ fetching = [kind |-> "first", after |-> NoFileId]

NextLibrary ==
    \/ \E ok \in BOOLEAN : fetchDatasetsAnswer(ok) /\ UNCHANGED LibraryRest
    \/ loadMoreDatasets /\ UNCHANGED LibraryRest
    \/ \E ok \in BOOLEAN : loadMoreAnswer(ok) /\ UNCHANGED LibraryRest

SpecLibrary == InitLibrary /\ [][NextLibrary]_vars
\* the load-more step is repeated as long as it can be taken, and every
\* request is answered
SpecLibraryFair == SpecLibrary /\ WF_vars(NextLibrary)

(***************************************************************************)
(* Session linking through localStorage: ConfigureRunPage stores the ids   *)
(* of the run it starts; the results dashboard, the annotation review page *)
(* and the api functions of part_001 read them back.                       *)
(***************************************************************************)
\* the runs the annotation service holds, the evaluation of each and the
\* test criteria of its report
LinkedRuns == {"run_1", "run_2", "run_3"}
EvalOf(r) == IF r = "run_2" THEN "eval_2" ELSE "eval_1"
TestOf(r) == CASE r = "run_1" -> "test_1" [] r = "run_2" -> "test_2" [] OTHER -> "test_3"
\* runDetails.report_url.split('/'), "database://runId/testCriteriaId"
ReportUrlParts(r) == <<"database:", "", r, TestOf(r)>>
\* parts[parts.length - 1]
LastPart(parts) == parts[Len(parts)]

RunDetailsRequest(e, r) == [kind |-> "details", evalId |-> e, runId |-> r, testId |-> Null]
TestRequest(k, e, r, t) == [kind |-> k, evalId |-> e, runId |-> r, testId |-> t]

\* ConfigureRunPage.handleSubmit after createRun answered, lines 249-253:
\* run r of its evaluation is started and the monitor is opened
handleSubmit(r) ==
    /\ localStorage' = [localStorage EXCEPT !.lastRunEvalId = EvalOf(r), !.lastRunId = r]
    /\ location' = [page |-> "monitor", runId |-> r]
    /\ annotationsOf' = Null
    /\ sent' = {}
    /\ UNCHANGED awaiting

\* getRunAggregation(runId), part_001 lines 1089-1114
AggregationRequests(e, r, ok) ==
    IF e = Null THEN {}
    ELSE {RunDetailsRequest(e, r)}
             \cup IF ok THEN {TestRequest("aggregation", e, r, LastPart(ReportUrlParts(r)))}
                        ELSE {}
\* fetchData of the results dashboard, lines 33-67: getRunDetails with the
\* stored evaluation id (none is sent for "unknown"), then getRunAggregation
ResultsRequests(e, r, ok) ==
    (IF e = Null THEN {} ELSE {RunDetailsRequest(e, r)}) \cup AggregationRequests(e, r, ok)

\* EvalRunsPage.handleViewResults, lines 161-163, on the run list of the
\* evaluation of r: the results dashboard of r is opened and loads
handleViewResults(r, ok) ==
    /\ location' = [page |-> "results", runId |-> r]
    /\ annotationsOf' = Null
    /\ sent' = ResultsRequests(localStorage.lastRunEvalId, r, ok)
    /\ UNCHANGED <<localStorage, awaiting>>

\* the link of the results dashboard, line 333: the review page is opened;
\* its effect, lines 181-209, stores the run id (the path /runs/:runId/annotations
\* holds no evaluation id) and calls getAnnotations, part_001 lines 546-552
OpenAnnotations ==
    /\ location.page = "results"
    /\ awaiting = NoWait
    /\ location' = [location EXCEPT !.page = "annotations"]
    /\ annotationsOf' = Null
    /\ localStorage' = [localStorage EXCEPT !.lastRunId = location.runId]
    /\ IF localStorage.lastRunEvalId = Null
       THEN /\ sent' = {}
            /\ UNCHANGED awaiting
       ELSE /\ sent' = {RunDetailsRequest(localStorage.lastRunEvalId, location.runId)}
            /\ awaiting' = [evalId |-> localStorage.lastRunEvalId, runId |-> location.runId]

\* the run details that getAnnotations awaits arrive, or the request fails:
\* part_001 lines 552-607, and lines 211-218 of the review page
getAnnotationsAnswer(outcome) ==
    /\ awaiting # NoWait
    /\ awaiting' = NoWait
    /\ IF outcome = "no details"
       THEN UNCHANGED <<localStorage, annotationsOf>> /\ sent' = {}
       ELSE /\ localStorage' =
                [localStorage EXCEPT !.lastTestCriteriaId = LastPart(ReportUrlParts(awaiting.runId))]
            /\ sent' = {TestRequest("annotations", awaiting.evalId, awaiting.runId,
                                    LastPart(ReportUrlParts(awaiting.runId)))}
            /\ annotationsOf' =
                IF outcome = "annotations"
                       /\ location = [page |-> "annotations", runId |-> awaiting.runId]
                THEN awaiting.runId
                ELSE annotationsOf
    /\ UNCHANGED location

\* saveAnnotation, part_001 lines 619-681, called for an annotation that
\* the review page lists
SaveRequests(st, ok) ==
    IF st.lastRunEvalId = Null \/ st.lastRunId = Null THEN {}
    ELSE IF st.lastTestCriteriaId # Null
    THEN {TestRequest("save", st.lastRunEvalId, st.lastRunId, st.lastTestCriteriaId)}
    ELSE {RunDetailsRequest(st.lastRunEvalId, st.lastRunId)}
             \cup IF ok THEN {TestRequest("save", st.lastRunEvalId, st.lastRunId,
                                          LastPart(ReportUrlParts(st.lastRunId)))}
                        ELSE {}
saveAnnotation(ok) ==
    /\ location.page = "annotations"
    /\ annotationsOf # Null
    /\ sent' = SaveRequests(localStorage, ok)
    /\ localStorage' =
           IF localStorage.lastRunEvalId # Null /\ localStorage.lastRunId # Null
                  /\ localStorage.lastTestCriteriaId = Null /\ ok
           THEN [localStorage EXCEPT !.lastTestCriteriaId = LastPart(ReportUrlParts(localStorage.lastRunId))]
           ELSE localStorage
    /\ UNCHANGED <<location, annotationsOf, awaiting>>

\* exportAnnotations(runId, "xlsx"), part_001 lines 723-745, called by
\* handleDownload of the results dashboard and handleExport of the review
\* page with the :runId of the page
exportAnnotations ==
    /\ location.page \in {"results", "annotations"}
    /\ sent' = IF localStorage.lastRunEvalId = Null \/ localStorage.lastTestCriteriaId = Null
               THEN {}
               ELSE {TestRequest("export", localStorage.lastRunEvalId, location.runId,
                                 localStorage.lastTestCriteriaId)}
    /\ UNCHANGED <<localStorage, location, annotationsOf, awaiting>>

InitLinking ==
    /\ LinkingRestIdle
    /\ localStorage = EmptyStorage
    /\ location = Elsewhere
    /\ annotationsOf = Null
    /\ awaiting = NoWait
    /\ sent = {}

NextLinking ==
    \/ \E r \in LinkedRuns : handleSubmit(r) /\ UNCHANGED LinkingRest
    \/ \E r \in LinkedRuns, ok \in BOOLEAN : handleViewResults(r, ok) /\ UNCHANGED LinkingRest
    \/ OpenAnnotations /\ UNCHANGED LinkingRest
    \/ \E outcome \in {"no details", "no annotations", "annotations"} :
           getAnnotationsAnswer(outcome) /\ UNCHANGED LinkingRest
    \/ \E ok \in BOOLEAN : saveAnnotation(ok) /\ UNCHANGED LinkingRest
    \/ exportAnnotations /\ UNCHANGED LinkingRest

SpecLinking == InitLinking /\ [][NextLinking]_vars

(***************************************************************************)
(* The upload page: UploadPage (part_003) and convertExcelToJsonl          *)
(* (part_001, lines 762-791).                                              *)
(***************************************************************************)
\* the files the user can pick or drop: a name and what follows its last dot
UserFiles ==
    {[name |-> n, ext |-> x, source |-> ""] :
         n \in {"a", "b"}, x \in {"xlsx", "jsonl", "XLSX", "csv"}}
\* toLowerCase of an extension
LowerCase(ext) == IF ext = "XLSX" THEN "xlsx" ELSE ext
\* selectedFile.name.split(".").pop()?.toLowerCase(), line 132
FileType(f) == LowerCase(f.ext)
\* name.endsWith(".xlsx") and name.endsWith(".jsonl"), lines 144, 146, 189
NameEndsWith(f, ext) == f.ext = ext
\* convertExcelToJsonl: the answer of the conversion endpoint for the file,
\* named after it
ConvertedFile(f) == [name |-> f.name, ext |-> "jsonl", source |-> f.name \o "." \o f.ext]

\* handleFileSelect, lines 131-155, up to the await of the conversion; a
\* file can be dropped or picked whatever is in flight
handleFileSelect(f) ==
    IF FileType(f) \notin {"xlsx", "jsonl"}
    THEN UNCHANGED <<file, convertedJsonlFile, isConverting, isUploading, converting, posted>>
    ELSE /\ file' = f
         /\ convertedJsonlFile' = NoFile
         /\ IF NameEndsWith(f, "xlsx")
            THEN isConverting' = TRUE /\ converting' = converting \cup {f}
            ELSE UNCHANGED <<isConverting, converting>>
         /\ UNCHANGED <<isUploading, posted>>

\* the conversion of f is answered: convertExcelFile, lines 105-118
ConversionDone(f) ==
    /\ f \in converting
    /\ converting' = converting \ {f}
    /\ convertedJsonlFile' = ConvertedFile(f)
    /\ isConverting' = FALSE
    /\ UNCHANGED <<file, isUploading, posted>>

\* the conversion of f fails: lines 119-127
ConversionFailed(f) ==
    /\ f \in converting
    /\ converting' = converting \ {f}
    /\ isConverting' = FALSE
    /\ UNCHANGED <<file, convertedJsonlFile, isUploading, posted>>

\* the button Change file, lines 309-320, and the effect of lines 55-64
ChangeFile ==
    /\ file # NoFile
    /\ file' = NoFile
    /\ convertedJsonlFile' = NoFile
    /\ isConverting' = FALSE
    /\ UNCHANGED <<isUploading, converting, posted>>

\* the upload button is enabled, line 419
CanUpload ==
    ~(isUploading \/ isConverting \/ file = NoFile
         \/ (NameEndsWith(file, "xlsx") /\ convertedJsonlFile = NoFile))

\* handleUpload up to its fetch, lines 182-209
handleUpload ==
    /\ CanUpload
    /\ posted' = IF NameEndsWith(file, "xlsx") THEN convertedJsonlFile ELSE file
    /\ isUploading' = TRUE
    /\ UNCHANGED <<file, convertedJsonlFile, isConverting, converting>>

\* the upload is answered, lines 211-226: a success leaves the page for the
\* dataset library, and the page starts afresh at the next visit
UploadAnswer(ok) ==
    /\ isUploading
    /\ IF ok
       THEN /\ file' = NoFile
            /\ convertedJsonlFile' = NoFile
            /\ isConverting' = FALSE
            /\ converting' = {}
            /\ posted' = NoFile
       ELSE UNCHANGED <<file, convertedJsonlFile, isConverting, converting, posted>>
    /\ isUploading' = FALSE

InitUpload == UploadRestIdle /\ UploadIdle

NextUpload ==
    \/ \E f \in UserFiles : handleFileSelect(f) /\ UNCHANGED UploadRest
    \/ \E f \in UserFiles : ConversionDone(f) /\ UNCHANGED UploadRest
    \/ \E f \in UserFiles : ConversionFailed(f) /\ UNCHANGED UploadRest
    \/ ChangeFile /\ UNCHANGED UploadRest
    \/ handleUpload /\ UNCHANGED UploadRest
    \/ \E ok \in BOOLEAN : UploadAnswer(ok) /\ UNCHANGED UploadRest

SpecUpload == InitUpload /\ [][NextUpload]_vars

(***************************************************************************)
(* The dataset selector of the run configuration: ConfigureRunPage.tsx,    *)
(* lines 75-207, over getDatasets (part_001, lines 242-282).               *)
(***************************************************************************)
\* the sequence without its k-th element
Without(seq, k) == SubSeq(seq, 1, k - 1) \o SubSeq(seq, k + 1, Len(seq))

\* what a render of the component shows: its state, and the loader element
\* of line 396, which exists when the list is not empty
Commit == [state |-> picker, loader |-> listed # <<>>]

\* the Select/Change button, lines 299-302: fetchDatasets up to its await
\* (lines 75-78) and setDatasetSelectorOpen(true)
OpenSelector ==
    /\ ~picker.open
    /\ inflight = <<>>
    /\ picker' = [picker EXCEPT !.open = TRUE, !.loadingDatasets = TRUE]
    /\ inflight' = Append(inflight, [kind |-> "first", after |-> NoFileId])
    /\ UNCHANGED <<backend, listed, committed, observers, asked>>

\* fetchDatasets after its await, lines 78-101
FirstDatasets(k, data) ==
    /\ listed' = data
    /\ picker' = [picker EXCEPT
                      !.lastDatasetId = IF Len(data) > 0 THEN data[Len(data)] ELSE @,
                      !.hasMoreDatasets = (Len(data) = PageSize),
                      !.loadingDatasets = FALSE]
    /\ inflight' = Without(inflight, k)
    /\ UNCHANGED <<backend, committed, observers, asked>>

fetchDatasetsDone(k, ok) ==
    /\ k \in 1..Len(inflight)
    /\ inflight[k].kind = "first"
    /\ FirstDatasets(k, getDatasets(backend, NoFileId, ok))

\* React renders the component with its latest state: from now on the
\* scroll handler on screen is the one of this render
Render ==
    /\ committed # Commit
    /\ committed' = Commit
    /\ UNCHANGED <<backend, listed, picker, observers, inflight, asked>>

\* the timeout of the observer effect, lines 153-193, 300 ms after a render
\* that is still the latest: it creates an observer around the callback of
\* that render.  The function the timeout returns (lines 184-187) is not
\* called by anything, so the observer is never disconnected.
Observe ==
    /\ committed.state.open
    /\ committed.state.hasMoreDatasets
    /\ ~committed.state.loadingDatasets
    /\ committed.loader
    /\ committed.state \notin observers
    /\ observers' = observers \cup {committed.state}
    /\ UNCHANGED <<backend, listed, picker, committed, inflight, asked>>

\* loadMoreDatasets of the render with state c, up to its await, lines
\* 106-123
loadMoreSelector(c) ==
    /\ ~(~c.hasMoreDatasets \/ c.loadingMoreDatasets)
    /\ c.lastDatasetId # NoFileId
    /\ Len(asked) < MaxLoads
    /\ picker' = [picker EXCEPT !.loadingMoreDatasets = TRUE]
    /\ inflight' = Append(inflight, [kind |-> "more", after |-> c.lastDatasetId])
    /\ asked' = Append(asked, c.lastDatasetId)
    /\ UNCHANGED <<backend, listed, committed, observers>>

\* the list is scrolled to less than 200px from its end: handleScroll of
\* the render on screen, lines 196-207
handleScroll ==
    /\ committed.state.open /\ committed.loader
    /\ ~(committed.state.loadingMoreDatasets \/ ~committed.state.hasMoreDatasets)
    /\ loadMoreSelector(committed.state)

\* the loader element comes into view: the callback of a live observer,
\* lines 173-180
Intersect(o) ==
    /\ o \in observers
    /\ committed.loader
    /\ o.hasMoreDatasets /\ ~o.loadingMoreDatasets
    /\ loadMoreSelector(o)

\* loadMoreDatasets after its await, lines 123-149
MoreDatasets(k, more) ==
    /\ listed' = IF Len(more) > 0 THEN listed \o more ELSE listed
    /\ picker' = [picker EXCEPT
                      !.lastDatasetId = IF Len(more) > 0 THEN more[Len(more)] ELSE @,
                      !.hasMoreDatasets = (Len(more) = PageSize),
                      !.loadingMoreDatasets = FALSE]
    /\ inflight' = Without(inflight, k)
    /\ UNCHANGED <<backend, committed, observers, asked>>

loadMoreDone(k, ok) ==
    /\ k \in 1..Len(inflight)
    /\ inflight[k].kind = "more"
    /\ MoreDatasets(k, getDatasets(backend, inflight[k].after, ok))

\* the page is mounted, the selector is closed
InitSelector ==
    /\ SelectorRestIdle
    /\ backend \in Catalogs
    /\ listed = <<>>
    /\ picker = FirstPicker
    /\ committed = [state |-> FirstPicker, loader |-> FALSE]
    /\ observers = {}
    /\ inflight = <<>>
    /\ asked = <<>>

NextSelector ==
    \/ OpenSelector /\ UNCHANGED SelectorRest
    \/ \E k \in 1..MaxLoads + 1, ok \in BOOLEAN : fetchDatasetsDone(k, ok) /\ UNCHANGED SelectorRest
    \/ Render /\ UNCHANGED SelectorRest
    \/ Observe /\ UNCHANGED SelectorRest
    \/ handleScroll /\ UNCHANGED SelectorRest
    \/ \E o \in observers : Intersect(o) /\ UNCHANGED SelectorRest
    \/ \E k \in 1..MaxLoads + 1, ok \in BOOLEAN : loadMoreDone(k, ok) /\ UNCHANGED SelectorRest

SpecSelector == InitSelector /\ [][NextSelector]_vars

(***************************************************************************)
(* The export endpoint: POST /api/v1/files/export and fetchAllAnnotations  *)
(* (server/routes/files.js, lines 47-94 and 226-309).                      *)
(***************************************************************************)
\* const limit = 100
AnnotationsLimit == 100
\* the annotations of a test, n of them, with ids 1..n in ascending order
AnnotationIds(n) == [k \in 1..n |-> k]
\* GET .../annotations?order=asc&limit=..&after=..: the page after the
\* cursor (the id of an annotation is its position in the list)
AnnotationsPage(list, cursor, lim) ==
    SubSeq(list, cursor + 1, IF cursor + lim < Len(list) THEN cursor + lim ELSE Len(list))

\* lines 246-260: a row of the sheet for each annotation
ProcessedData(list) == [k \in 1..Len(list) |-> [conversationId |-> list[k]]]

\* the rest of the handler once fetchAllAnnotations has returned, lines
\* 240-300: 404 for no annotation, else the spreadsheet
ExportAnswer(list) ==
    /\ exportPc' = "answered"
    /\ response' = IF Len(list) = 0
                   THEN [status |-> 404, rows |-> <<>>]
                   ELSE [status |-> 200, rows |-> ProcessedData(list)]

\* POST /export arrives, lines 226-238: 400 when a parameter is missing,
\* else fetchAllAnnotations starts, lines 47-54
ExportRequest(complete) ==
    /\ exportPc = "idle"
    /\ IF complete
       THEN /\ exportPc' = "fetching"
            /\ UNCHANGED response
       ELSE /\ exportPc' = "answered"
            /\ response' = [status |-> 400, rows |-> <<>>]
    /\ UNCHANGED <<annotations, allAnnotations, after, lateFailure>>

\* axios.get resolves with a page: one turn of the loop, lines 66-84
PageFetched(data) ==
    /\ allAnnotations' = allAnnotations \o data
    /\ after' = IF Len(data) > 0 THEN data[Len(data)] ELSE after
    /\ IF Len(data) > 0 /\ ~(Len(data) < AnnotationsLimit)
       THEN UNCHANGED <<exportPc, response>>
       ELSE ExportAnswer(allAnnotations \o data)
    /\ UNCHANGED <<annotations, lateFailure>>

\* the annotation service answers the page request in flight
PageAnswer ==
    /\ exportPc = "fetching"
    /\ PageFetched(AnnotationsPage(annotations, after, AnnotationsLimit))

\* axios.get rejects: the catch of lines 85-88 ends the loop, and
\* fetchAllAnnotations returns what it has
PageFailure ==
    /\ exportPc = "fetching"
    /\ lateFailure' = (allAnnotations # <<>>)
    /\ ExportAnswer(allAnnotations)
    /\ UNCHANGED <<annotations, allAnnotations, after>>

InitExport ==
    /\ ExportRestIdle
    /\ annotations \in {AnnotationIds(n) : n \in 0..MaxAnnotations}
    /\ allAnnotations = <<>>
    /\ after = 0
    /\ exportPc = "idle"
    /\ lateFailure = FALSE
    /\ response = NoResponse

NextExport ==
    \/ \E complete \in BOOLEAN : ExportRequest(complete) /\ UNCHANGED ExportRest
    \/ PageAnswer /\ UNCHANGED ExportRest
    \/ PageFailure /\ UNCHANGED ExportRest

SpecExport == InitExport /\ [][NextExport]_vars

(***************************************************************************)
(* Properties of the conversion endpoint.                                  *)
(***************************************************************************)
\* the request is over: answered directly or through the error middleware
Finished == pc = "done"
\* the request ended with the JSONL attachment
Converted == Finished /\ Len(res) = 1 /\ res[1].status = 200 /\ res[1].type = "attachment"
\* the lines of the attachment
OutLines == Lines(res[1].body)

\* the row carries an id cell, whatever its value
HasId(row) == row.conversationId.t # "undef" \/ row.conversation_id.t # "undef"
\* the id cell of a row: conversationId if present, otherwise conversation_id
IdCell(row) == IF row.conversationId.t # "undef" THEN row.conversationId ELSE row.conversation_id
\* the numbers of the rows that carry an id, in sheet order
IdRowNumbers == SelectSeq([k \in 1..Len(sheet) |-> k], LAMBDA k : HasId(sheet[k]))
\* the inner object of a parsed line
ItemOf(line) == Member(JSONParse(line).v, KeyItem)

\* the conversation field of the k-th line of the attachment
LineConversation(k) == AsVal(Member(ItemOf(OutLines[k]), KeyConversation))
\* the conversationId field of the k-th line of the attachment
LineId(k) == AsVal(Member(ItemOf(OutLines[k]), KeyConversationId))

\* an unlink of the request failed
UnlinkFailed == hist.faults \cap {"unlinkExcel", "unlinkJsonl", "cleanup"} # {}

\* C1: once a request that saved its upload is over (answered, or its error
\* handed to the error middleware), neither its temporary spreadsheet file
\* nor its temporary JSONL file is on disk, on the success path and on every
\* error path.  Stated for the requests none of whose unlinks failed: a
\* file whose unlink fails necessarily stays, so that a violation here is
\* a file the handler never tried to delete.
C1_TempFilesDeleted ==
    (Finished /\ hist.saved /\ ~UnlinkFailed)
        => (excelPath \notin files /\ jsonlPath \notin files)

\* C2: the output holds no line derived from a row that lacks both
\* conversationId and conversation_id: every written line comes from a row
\* with an id cell, the attachment has one line per written row, and each
\* line carries an id cell of its row
C2_NoLineWithoutId ==
    /\ \A k \in 1..Len(hist.emitted) : HasId(sheet[hist.emitted[k]])
    /\ Converted =>
           /\ Len(OutLines) = Len(hist.emitted)
           /\ \A k \in 1..Len(hist.emitted) :
                 /\ LineId(k).t # "undef"
                 /\ LineId(k) \in {sheet[hist.emitted[k]].conversationId,
                                   sheet[hist.emitted[k]].conversation_id}

\* a conversion whose sheet has a row without id and a row with one
C2_Witness ==
    /\ Converted
    /\ \E k \in 1..Len(sheet) : ~HasId(sheet[k])
    /\ Len(hist.emitted) >= 1
    /\ Len(OutLines) = 1

\* C3: the output has exactly one line for every row that carries an id
\* value, whatever the value, in row order
C3_OneLinePerIdRow ==
    Converted => (hist.emitted = IdRowNumbers /\ Len(OutLines) = Len(IdRowNumbers))

\* C4: if the translation call for a row fails (missing credential, network
\* error, malformed translation response), the conversation field of the
\* row's line equals the row's original conversation text
C4_FallbackToOriginal ==
    Converted =>
        /\ Len(OutLines) = Len(hist.emitted)
        /\ \A k \in 1..Len(hist.emitted) :
              hist.emitted[k] \in hist.failed
                  => LineConversation(k) = sheet[hist.emitted[k]].conversation

\* C5: whichever translation calls fail, the conversion runs to completion:
\* with nothing else going wrong, the request ends with the JSONL attachment
\* and every row that carries an id has its line
C5_TranslationNeverAborts ==
    (pc \in {"done", "crashed"} /\ hist.read /\ hist.faults = {})
        => /\ Converted
           /\ hist.emitted = IdRowNumbers
           /\ Len(OutLines) = Len(IdRowNumbers)

\* C6: every emitted line parses on its own as a JSON object, and its
\* item.conversationId is the id cell of its row (conversationId if present,
\* otherwise conversation_id)
C6_LineParsesWithRowId ==
    Converted =>
        /\ Len(OutLines) = Len(hist.emitted)
        /\ \A k \in 1..Len(hist.emitted) :
              /\ JSONParse(OutLines[k]).ok
              /\ JSONParse(OutLines[k]).v.t = "obj"
              /\ LineId(k) = IdCell(sheet[hist.emitted[k]])

\* both conversions of the sheet ended with the attachment, and every answer
\* of the translation service was the stub's
ConvertedTwice ==
    /\ run = 2
    /\ Converted
    /\ Len(prev.res) = 1
    /\ prev.res[1].status = 200
    /\ prev.stubbed
    /\ hist.stubbed

\* every row that is emitted has a timestamp cell that is neither empty nor 0
AllTimestamped == \A k \in 1..Len(sheet) : ~SkipRow(sheet[k]) => Truthy(sheet[k].timestamp)

\* C7 as stated: converting the same sheet twice with a deterministic,
\* non-failing translation stub yields byte-identical output, for every
\* sheet, also with rows that have no timestamp cell
C7_SameOutputTwice ==
    ConvertedTwice => res[1].body = prev.res[1].body

\* C7 amended: the two outputs are byte-identical for every sheet in which
\* each emitted row has a timestamp cell that is neither empty nor 0
C7_SameOutputTwiceTimestamped ==
    (ConvertedTwice /\ AllTimestamped) => res[1].body = prev.res[1].body

\* two conversions of a sheet with a timestamped row, translated by the stub
C7_Witness ==
    /\ ConvertedTwice
    /\ AllTimestamped
    /\ hist.called # {}
    /\ apiKey
    /\ Len(OutLines) >= 1

\* C8: a request without upload, or whose file name does not end in .xlsx,
\* is answered with status 400 and a message, and before that answer no
\* temporary file is created, no workbook is read and no translation call
\* is made
C8_RejectedBeforeProcessing ==
    (pc # "idle" /\ (upload.kind = "none"
                     \/ (upload.kind = "single" /\ ~EndsWith(upload.name, XlsxExt))))
        => /\ Finished
           /\ Len(res) = 1
           /\ res[1].status = 400
           /\ res[1].type = "json"
           /\ res[1].message # ""
           /\ files = {}
           /\ ~hist.saved
           /\ ~hist.read
           /\ hist.called = {}
           /\ stream = "none"

\* a request whose file name holds .xlsx, but not at its end, was rejected
C8_Witness ==
    /\ Finished
    /\ upload.kind = "single"
    /\ IndexOf(upload.name, XlsxExt) # 0
    /\ ~EndsWith(upload.name, XlsxExt)
    /\ res[1].status = 400

\* C9: if reading or parsing the workbook throws, the request ends with
\* status 500 and a JSON message, and no JSONL content is sent
C9_WorkbookErrorIs500 ==
    "read" \in hist.faults
        => /\ \A k \in 1..Len(res) :
                 /\ res[k].status = 500
                 /\ res[k].type = "json"
                 /\ res[k].message # ""
                 /\ res[k].body = <<>>
           /\ Finished => Len(res) = 1
           /\ jsonlBuf = <<>>

\* the workbook read threw and the request is over
C9_Witness ==
    /\ Finished
    /\ "read" \in hist.faults
    /\ Len(res) = 1

\* C10: every conversion request receives exactly one response, a 2xx with
\* the JSONL attachment or a non-2xx JSON body with a message; none is left
\* without response (also when the write stream fails), none answered twice
C10_ExactlyOneResponse ==
    /\ Len(res) <= 1
    /\ pc \in {"done", "crashed"}
          => /\ Len(res) = 1
             /\ \/ res[1].status = 200 /\ res[1].type = "attachment"
                \/ res[1].status \notin 200..299 /\ res[1].type = "json" /\ res[1].message # ""

\* the rows whose lines were written
Emitted == {hist.emitted[k] : k \in 1..Len(hist.emitted)}

CellElse(a, b) == IF a.t # "undef" THEN a ELSE b
\* a field of the k-th line of the attachment
LineField(k, key) == AsVal(Member(ItemOf(OutLines[k]), key))

\* C13: field resolution per emitted row: the id is conversationId, else
\* conversation_id; Agent is Agent, else agent; source_intent is
\* source_intent, else sourceIntent; timestamp is the timestamp cell, else
\* the current time; a value present only under the alias spelling appears
\* unchanged in the line.  Violated by the rows with a cell of value 0: the
\* fallbacks of files.js 162-166 are || chains, which pass over a first
\* spelling (or a timestamp cell) that is present with a falsy value.
C13_FieldResolution ==
    Converted =>
        \A k \in 1..Len(hist.emitted) :
            LET row == sheet[hist.emitted[k]]
            IN  /\ LineField(k, KeyConversationId) = CellElse(row.conversationId, row.conversation_id)
                /\ LineField(k, KeyAgent) = CellElse(CellElse(row.Agent, row.agent), Str(<<>>))
                /\ LineField(k, KeySourceIntent)
                       = CellElse(CellElse(row.source_intent, row.sourceIntent), Str(<<>>))
                /\ IF row.timestamp.t # "undef"
                   THEN LineField(k, KeyTimestamp) = row.timestamp
                   ELSE \E t \in 0..MaxClock : LineField(k, KeyTimestamp) = Str(ISOString(t))

(***************************************************************************)
(* Properties of two conversion requests in flight.                        *)
(***************************************************************************)
\* the handler of request r stands between its arrival and its answer
InFlight(r) == reqs[r].pc \notin {"idle", "done"}

\* C11: two conversion requests that are in flight at the same time never
\* use the same temporary spreadsheet path or the same temporary JSONL path,
\* also when both uploads have the same file name.  Violated: the paths are
\* made of Date.now() and the file name (files.js 127-129), so two uploads of
\* one name that arrive in the same millisecond share both paths.
C11_DistinctTempPaths ==
    \A r \in Requests, q \in Requests :
        r # q /\ InFlight(r) /\ InFlight(q)
            => /\ PairExcelPath(r) # PairExcelPath(q)
               /\ PairJsonlPath(r) # PairJsonlPath(q)

(***************************************************************************)
(* Properties of parseConversation.                                        *)
(***************************************************************************)
\* parseConversation has been called on the conversation string
Rendered == rendered.via # "none"
\* the string starts with [ and ends with ]
Bracketed(str) == StartsWith(str, <<"[">>) /\ EndsWith(str, <<"]">>)
\* the text holds an apostrophe
HasApostrophe(cs) == \E k \in 1..Len(cs) : cs[k] = Apostrophe
\* some role or content of the turns holds an apostrophe
SomeApostrophe(turns) ==
    \E k \in 1..Len(turns) : HasApostrophe(turns[k].role) \/ HasApostrophe(turns[k].content)
\* the turns as paragraphs **role**: content, in order, a blank line between
\* two of them
Paragraphs(turns) ==
    Join([k \in 1..Len(turns) |->
             <<"*", "*">> \o turns[k].role \o <<"*", "*", ":", " ">> \o turns[k].content],
         <<"\n", "\n">>)
\* the conversation string is a list of at least one turn, written in one
\* of the styles, with nothing before or after it
WrittenAs(styles) ==
    origin.style \in styles /\ origin.pad = "none" /\ Len(origin.turns) >= 1

\* C14: parseConversation never throws: for every input it returns a value
\* to the caller, whichever of the parse strategies fail
C14_NeverThrows == Rendered => (~rendered.threw /\ rendered.via # "thrown")

\* the body of parseConversation threw (a null turn), and the string was
\* returned
C14_Witness == rendered.via = "caught" /\ rendered.value = annotationConversation

\* C15: for every input string that does not both start with '[' and end
\* with ']', parseConversation returns the input unchanged
C15_UnbracketedUnchanged ==
    (Rendered /\ ~Bracketed(annotationConversation))
        => (~rendered.threw /\ rendered.value = annotationConversation)

\* a single-quoted list followed by a space was returned as it is
C15_Witness ==
    /\ Rendered
    /\ origin.style = "single" /\ origin.pad = "after" /\ ~SomeApostrophe(origin.turns)
    /\ ~Bracketed(annotationConversation)
    /\ rendered.value = annotationConversation

\* C16: for a bracketed input on which the single-quote pattern does not
\* match, the direct parse fails and the quote-repair parse fails,
\* parseConversation returns the original string unchanged
C16_AllFailUnchanged ==
    (/\ Rendered
     /\ Bracketed(annotationConversation)
     /\ ~SingleQuoteTest(annotationConversation)
     /\ ~JsonParse(annotationConversation).ok
     /\ ~JsonParse(FixQuotes(annotationConversation)).ok)
        => (~rendered.threw /\ rendered.value = annotationConversation)

\* the list that Python prints for a content with an apostrophe went
\* through the three strategies and was returned as it is
C16_Witness ==
    /\ annotationConversation = MixedQuotes
    /\ rendered.via = "failed"
    /\ rendered.value = annotationConversation

C18_EscapedQuoteKept ==
    (Rendered /\ WrittenAs({"single"}) /\ SomeApostrophe(origin.turns))
        => (~rendered.threw /\ rendered.value = Paragraphs(origin.turns))

\* C19: a bracketed input that is a JSON array of {"role", "content"}
\* objects with double-quoted keys and values, including a content that
\* holds an apostrophe, written as it is or with a backslash, is returned as
\* the turns rendered **role**: content with the apostrophe intact.
\* Violated for the apostrophe written \': JSON.parse rejects that escape,
\* and the quote repair of lines 114-122 turns it into \".
C19_JsonRendered ==
    (Rendered /\ WrittenAs({"json", "jsonEscaped"}))
        => (~rendered.threw /\ rendered.value = Paragraphs(origin.turns))

(***************************************************************************)
(* Properties of the run monitor.                                          *)
(***************************************************************************)
\* the final statuses of a run
FinalStatuses == {"completed", "failed"}

\* C20: once a status fetch has returned a run status of completed or
\* failed, the polling timer is cancelled, and no further status request is
\* started for the rest of the page's life
C20_StopsAtFinalStatus ==
    [][(details' \in FinalStatuses)
          => /\ timers' = {}
             /\ (details \in FinalStatuses => started' = started)]_vars

\* after an answer in_progress the timer asked again, the run failed, the
\* second answer said so, and the page is still shown with no timer left
C20_Witness ==
    /\ page = "shown"
    /\ details = "failed"
    /\ view.runDetails = "failed"
    /\ started >= 2
    /\ pending = 0
    /\ pollInterval # NoTimer
    /\ timers = {}

\* the page is shown with both ids and no answer has carried a final status
Polling ==
    /\ page = "shown"
    /\ view.runId # Null /\ view.evalId # Null
    /\ details \notin FinalStatuses

\* C21: a status fetch that fails does not stop polling: as long as no
\* final status has been observed and the page is not unmounted, the one
\* timer of line 536 stays set, so the next request is issued one interval
\* later, whatever the number of failures; the step that records the
\* failure leaves the timer as it is
C21_FailureKeepsPolling ==
    /\ [](Polling => (pollInterval # NoTimer /\ timers = {pollInterval}))
    /\ [][(Polling /\ view'.error # view.error) => timers' = timers]_vars

\* every request so far has failed, and the timer has issued the last of
\* the requests the model allows and is still set
C21_Witness ==
    /\ Polling
    /\ view.error = "Failed to fetch"
    /\ details = Null
    /\ started = MaxFetches
    /\ pending = 0
    /\ timers = {pollInterval}

(***************************************************************************)
(* Properties of the dataset library.                                      *)
(***************************************************************************)
\* C22: against a backend holding a fixed list of N datasets, the repeated
\* load-more steps eventually set hasMore to false; from then on no page
\* request is made, and the loaded list is the backend's list, each dataset
\* once and in the backend's order, also when N is a multiple of 8.
\* Violated when a page request fails: getDatasets answers [] for it, which
\* the page takes for the last page.
C22_LoadsWholeList ==
    /\ <>(~hasMore)
    /\ [](~hasMore => datasets = catalog)
    /\ [][~hasMore => fetching' = fetching]_vars

(***************************************************************************)
(* Properties of the session linking.                                      *)
(***************************************************************************)
\* C23: whenever the results dashboard or the annotation review page
\* requests run details, annotations or aggregation for run R, the evalId
\* in the request URL is the id of the evaluation R belongs to, for every
\* navigation sequence.  Violated: the evalId is the one stored when the
\* latest run was started.
C23_EvalIdOfTheRun ==
    \A q \in sent :
        q.kind \in {"details", "annotations", "aggregation"} => q.evalId = EvalOf(q.runId)

\* C24: whenever saveAnnotation or exportAnnotations sends a request, the
\* test-criteria id it uses was extracted from the report_url of the run
\* whose id is in the request.  Violated: lastTestCriteriaId is that of the
\* run whose annotations were fetched last.
C24_TestIdOfTheRun ==
    \A q \in sent :
        q.kind \in {"save", "export"} => q.testId = LastPart(ReportUrlParts(q.runId))

(***************************************************************************)
(* Properties of the upload page.                                          *)
(***************************************************************************)
\* the file is what the upload of the selected file should send
RightUpload(sentFile, selected) ==
    \/ selected.ext = "jsonl" /\ sentFile = selected
    \/ selected.ext = "xlsx" /\ sentFile = ConvertedFile(selected)

\* C25: whenever convertedJsonlFile is non-null it is the conversion result
\* of the currently selected file, and the file sent by handleUpload is
\* either the selected .jsonl file or the conversion of the selected .xlsx
\* file, also when the file is changed while a conversion is in flight.
\* Violated: a conversion that completes late stores its result whatever
\* the selected file is by then.
C25_ConvertedIsOfSelected ==
    /\ [](convertedJsonlFile # NoFile
             => (file # NoFile /\ convertedJsonlFile = ConvertedFile(file)))
    /\ [][(posted' # posted /\ posted' # NoFile) => RightUpload(posted', file)]_vars

(***************************************************************************)
(* Properties of the timers of the run monitor                             *)
(***************************************************************************)

\* the interval of the page reads the ids the page shows
TimerOfTheIds == closure.runId = view.runId /\ closure.evalId = view.evalId

\* C26: the run monitor has at most one polling timer at any time, and the
\* only timer that can be active is the one of the latest run of the
\* polling effect; once the page is unmounted no timer is active, and once
\* the polling effect has run for changed ids the active timer is the one
\* created for those ids.
C26_OneTimer ==
    /\ Cardinality(timers) <= 1
    /\ timers \subseteq {pollInterval}
    /\ (page = "unmounted" => timers = {})
    /\ (page = "shown" /\ timers # {} => TimerOfTheIds)

\* the page was moved to other ids while its timer was running, and the
\* timer of the new ids is the only one
C26_Witness ==
    /\ page = "shown"
    /\ pollInterval >= 2
    /\ timers = {pollInterval}
    /\ TimerOfTheIds

\* the route is /runs/:runId and localStorage holds no lastRunEvalId whose
\* lastRunId is the run of the URL
CannotDetermine ==
    /\ page \in {"opened", "shown"}
    /\ route.urlRunId # Null /\ route.urlEvalId = Null
    /\ ~(stored.lastRunEvalId # Null /\ stored.lastRunId = route.urlRunId)

\* C27: when the run monitor cannot determine an evalId, it eventually
\* leaves the loading state and shows the "Missing evaluation ID" error
\* (unless the page is left first).
C27_LeavesLoading ==
    CannotDetermine ~> (page = "unmounted"
                            \/ (~view.loading /\ view.error = "Missing evaluation ID"))

\* the log lines of lines 489-507
StatusLines ==
    {"Run details fetched", "Run is in progress...", "Run completed successfully!", "Results",
     "Run failed"}
HasStatusLine(log) == \E k \in 1..Len(log) : log[k] \in StatusLines

\* C30: an answered fetch of the run monitor appends log lines about the
\* status of the run only when it is the first successful fetch or when its
\* status differs from the status fetched before.
C30_LogsOnChange ==
    [][(pending' < pending /\ HasStatusLine(logged'))
           => (details = Null \/ details' # details)]_vars

(***************************************************************************)
(* Properties of the dataset selector of the run configuration.            *)
(***************************************************************************)
NoRepeats(seq) == \A j, k \in 1..Len(seq) : seq[j] = seq[k] => j = k

\* C28: in the dataset selector at most one load-more request is in flight
\* at any time, no page is requested twice with the same cursor, and no
\* dataset is in the list twice.
C28_OneLoadMore ==
    /\ Cardinality({k \in 1..Len(inflight) : inflight[k].kind = "more"}) <= 1
    /\ NoRepeats(asked)
    /\ NoRepeats(listed)

(***************************************************************************)
(* Properties of the export endpoint.                                      *)
(***************************************************************************)
\* C29: when a page request to the annotation service fails after earlier
\* pages were fetched, the export request is not answered with a 200
\* spreadsheet.
C29_FailureIsAnError ==
    (exportPc = "answered" /\ lateFailure) => response.status # 200
====
